---- MODULE Spec2Model ----
(***************************************************************************)
(* LogLine: a Slack bot that logs direct messages as bullet entries under  *)
(* day headings of a Google Doc.  Text is modelled character by character: *)
(* a string is a sequence of one-character strings, and the document body  *)
(* is the sequence of its characters, so that the character of the body at *)
(* Docs index i is doc[i] (the body's section break occupies index 0).     *)
(***************************************************************************)
EXTENDS Integers, Sequences, FiniteSets, TLC

\* ------------------------------------------------------------------------
\* Bounds of the model
\* ------------------------------------------------------------------------

\* the clock runs over the calendar days May 1st .. May MaxDay-th, 2026
MaxDay == 2

\* number of direct messages delivered in one behaviour
MaxMessages == 3

\* number of paragraphs of an arbitrary document snapshot
MaxParas == 3

\* the users of the users collection
MaxUsers == 2

\* the runs of /api/trigger-reminders
MaxRuns == 3

\* the calendar days over which streaks are followed
MaxStreakDay == 6

\* how many half-lifetimes of a cache entry the clock may advance
MaxClockSteps == 2

\* ------------------------------------------------------------------------
\* Characters and strings
\* ------------------------------------------------------------------------

NL == "\n"

\* U+2022, the bullet character
BULLET == "U+2022"

\* what \s matches and what String.prototype.trim removes
IsSpace(c) == c \in {" ", NL, "\t"}

IsDigit(c) == c \in {"0", "1", "2", "3", "4", "5", "6", "7", "8", "9"}

Digits == <<"0", "1", "2", "3", "4", "5", "6", "7", "8", "9">>

RECURSIVE NumToStr(_)
\* the decimal rendering of a number by a template literal
NumToStr(n) == IF n < 10 THEN <<Digits[n + 1]>>
               ELSE NumToStr(n \div 10) \o <<Digits[(n % 10) + 1]>>

\* String.prototype.startsWith
StartsWith(s, p) == Len(s) >= Len(p) /\ SubSeq(s, 1, Len(p)) = p

\* String.prototype.includes
Includes(s, p) == \E i \in 1..(Len(s) - Len(p) + 1) : SubSeq(s, i, i + Len(p) - 1) = p

RECURSIVE TrimStart(_)
TrimStart(s) == IF s # <<>> /\ IsSpace(Head(s)) THEN TrimStart(Tail(s)) ELSE s

RECURSIVE TrimEnd(_)
TrimEnd(s) == IF s # <<>> /\ IsSpace(s[Len(s)]) THEN TrimEnd(SubSeq(s, 1, Len(s) - 1)) ELSE s

\* String.prototype.trim
Trim(s) == TrimEnd(TrimStart(s))

RECURSIVE SplitOn(_, _)
\* String.prototype.split(c) for a one-character separator
SplitOn(s, c) ==
    IF \A i \in 1..Len(s) : s[i] # c THEN <<s>>
    ELSE LET k == CHOOSE i \in 1..Len(s) : s[i] = c /\ \A j \in 1..(i - 1) : s[j] # c
         IN  <<SubSeq(s, 1, k - 1)>> \o SplitOn(SubSeq(s, k + 1, Len(s)), c)

RECURSIVE JoinWith(_, _)
\* Array.prototype.join(sep)
JoinWith(parts, sep) ==
    IF parts = <<>> THEN <<>>
    ELSE IF Len(parts) = 1 THEN parts[1]
    ELSE parts[1] \o sep \o JoinWith(Tail(parts), sep)

RECURSIVE FilterNonBlank(_)
\* Array.prototype.filter(l => l.trim())
FilterNonBlank(parts) ==
    IF parts = <<>> THEN <<>>
    ELSE IF Trim(Head(parts)) = <<>> THEN FilterNonBlank(Tail(parts))
    ELSE <<Head(parts)>> \o FilterNonBlank(Tail(parts))

\* ------------------------------------------------------------------------
\* utils/date-formatter.js
\* ------------------------------------------------------------------------

days == <<
    <<"S", "u", "n", "d", "a", "y">>,
    <<"M", "o", "n", "d", "a", "y">>,
    <<"T", "u", "e", "s", "d", "a", "y">>,
    <<"W", "e", "d", "n", "e", "s", "d", "a", "y">>,
    <<"T", "h", "u", "r", "s", "d", "a", "y">>,
    <<"F", "r", "i", "d", "a", "y">>,
    <<"S", "a", "t", "u", "r", "d", "a", "y">>>>

months == <<
    <<"J", "a", "n", "u", "a", "r", "y">>,
    <<"F", "e", "b", "r", "u", "a", "r", "y">>,
    <<"M", "a", "r", "c", "h">>,
    <<"A", "p", "r", "i", "l">>,
    <<"M", "a", "y">>,
    <<"J", "u", "n", "e">>,
    <<"J", "u", "l", "y">>,
    <<"A", "u", "g", "u", "s", "t">>,
    <<"S", "e", "p", "t", "e", "m", "b", "e", "r">>,
    <<"O", "c", "t", "o", "b", "e", "r">>,
    <<"N", "o", "v", "e", "m", "b", "e", "r">>,
    <<"D", "e", "c", "e", "m", "b", "e", "r">>>>

\* The local date of the n-th day of the clock, as the Date accessors give
\* it: May n, 2026 (May 1st, 2026 is a Friday).
LocalDate(n) == [getDay |-> (n + 4) % 7, getMonth |-> 4, getDate |-> n, getFullYear |-> 2026]

OrdinalTable == <<<<"t", "h">>, <<"s", "t">>, <<"n", "d">>, <<"r", "d">>>>

\* s[k] of a JavaScript array: undefined (here <<>>) outside 0..length-1
OrdinalAt(k) == IF k >= 0 /\ k <= 3 THEN OrdinalTable[k + 1] ELSE <<>>

\* JavaScript's %: the result has the sign of the dividend
JsRem(a, b) == IF a >= 0 THEN a % b ELSE 0 - ((0 - a) % b)

getOrdinalSuffix(n) ==
    LET v == n % 100
    IN  IF OrdinalAt(JsRem(v - 20, 10)) # <<>> THEN OrdinalAt(JsRem(v - 20, 10))
        ELSE IF OrdinalAt(v) # <<>> THEN OrdinalAt(v)
        ELSE OrdinalAt(0)

getDateHeading(date) ==
    days[date.getDay + 1] \o <<",", " ">> \o months[date.getMonth + 1] \o <<" ">>
        \o NumToStr(date.getDate) \o getOrdinalSuffix(date.getDate) \o <<",", " ">>
        \o NumToStr(date.getFullYear)

\* the heading of the clock's day n in the user's timezone
getTodayHeading(n) == getDateHeading(LocalDate(n))

\* ------------------------------------------------------------------------
\* The document store (Google Docs API)
\* ------------------------------------------------------------------------

\* the body of a document right after documents.create: one empty paragraph
NewDocument == <<NL>>

\* insertText at a Docs index: the text goes in front of the character at
\* that index
InsertText(d, index, t) == SubSeq(d, 1, index - 1) \o t \o SubSeq(d, index, Len(d))

\* the store accepts an insertion only inside an existing paragraph
ValidInsertIndex(d, index) == index >= 1 /\ index <= Len(d)

RECURSIVE LineEnd(_, _)
\* position of the first newline of d at or after start (Len(d) when none)
LineEnd(d, start) ==
    IF start >= Len(d) \/ d[start] = NL THEN start ELSE LineEnd(d, start + 1)

RECURSIVE ParagraphsFrom(_, _)
ParagraphsFrom(d, start) ==
    IF start > Len(d) THEN <<>>
    ELSE LET e == LineEnd(d, start)
         IN  <<[startIndex |-> start, endIndex |-> e + 1, text |-> SubSeq(d, start, e)]>>
                 \o ParagraphsFrom(d, e + 1)

\* doc.body.content restricted to its paragraph elements: each with its
\* start and end index and the joined content of its text runs (which ends
\* with the paragraph's newline).  The leading section break has no
\* paragraph and is skipped by every loop of the program.
Content(d) == ParagraphsFrom(d, 1)

TitleHeadingText == <<"#", " ", "D", "a", "i", "l", "y", " ", "C", "h", "e", "c", "k", "-", "i", "n", "s", "\n", "\n">>

\* createCheckinDoc: documents.create, then insertText of the title at index 1
createCheckinDoc == InsertText(NewDocument, 1, TitleHeadingText)

\* ------------------------------------------------------------------------
\* services/google-docs.js: findInsertPosition
\* ------------------------------------------------------------------------

\* paragraphText.match(/^(Monday|Tuesday|Wednesday|Thursday|Friday|Saturday|Sunday),/)
IsDateHeadingLine(paragraphText) ==
    \E k \in 1..Len(days) : StartsWith(paragraphText, days[k] \o <<",">>)

\* a paragraph that never counts as today's heading
ContainsTodayHeadingExact(paragraphText, todayHeading) == paragraphText = todayHeading

\* paragraphText.includes(todayHeading)
ContainsTodayHeading(paragraphText, todayHeading) == Includes(paragraphText, todayHeading)

RECURSIVE ScanForToday(_, _, _, _)
\* The first loop, from element i on, with the loop's variables in st.
\* insertIndex = 0 stands for null (the code only tests it with !insertIndex).
ScanForToday(content, todayHeading, i, st) ==
    IF i > Len(content) THEN st
    ELSE LET element == content[i]
             paragraphText == Trim(element.text)
         IN  IF ContainsTodayHeading(paragraphText, todayHeading)
             THEN ScanForToday(content, todayHeading, i + 1,
                      [headingFound |-> TRUE, needsNewHeading |-> FALSE,
                       insertIndex |-> element.endIndex - 1])
             ELSE IF st.headingFound /\ IsDateHeadingLine(paragraphText)
             THEN st
             ELSE IF st.headingFound
             THEN ScanForToday(content, todayHeading, i + 1,
                      [st EXCEPT !.insertIndex = element.endIndex - 1])
             ELSE ScanForToday(content, todayHeading, i + 1, st)

TitleMarker == <<"D", "a", "i", "l", "y", " ", "C", "h", "e", "c", "k", "-", "i", "n", "s">>

\* text.includes('Daily Check-ins') || text.includes('# ')
HasTitleMarker(t) == Includes(t, TitleMarker) \/ Includes(t, <<"#", " ">>)

\* the end of the document instead of the end of the title paragraph
ScanForTitleToEnd(content, i) ==
    IF content = <<>> THEN 0 ELSE content[Len(content)].endIndex - 1

\* the newline of the title paragraph instead of the paragraph's end
ScanForTitleBeforeNewline(content, i) ==
    IF \E k \in i..Len(content) : HasTitleMarker(content[k].text)
    THEN content[CHOOSE k \in i..Len(content) :
                     /\ HasTitleMarker(content[k].text)
                     /\ \A j \in i..(k - 1) : ~HasTitleMarker(content[j].text)].endIndex - 1
    ELSE 0

RECURSIVE ScanForTitle(_, _)
\* the second loop: the end index of the first paragraph with the title
\* marker, or 0 (null) when there is none
ScanForTitle(content, i) ==
    IF i > Len(content) THEN 0
    ELSE IF HasTitleMarker(content[i].text) THEN content[i].endIndex
    ELSE ScanForTitle(content, i + 1)

\* the offset used when nothing was found
DefaultIndex == 2

findInsertPosition(content, todayHeading) ==
    LET st == ScanForToday(content, todayHeading, 1,
                  [headingFound |-> FALSE, needsNewHeading |-> TRUE, insertIndex |-> 0])
        titleIndex == ScanForTitle(content, 1)
        insertIndex == IF ~st.headingFound
                       THEN (IF titleIndex = 0 THEN DefaultIndex ELSE titleIndex)
                       ELSE st.insertIndex
    IN  [index |-> insertIndex, needsNewHeading |-> st.needsNewHeading]

\* ------------------------------------------------------------------------
\* services/google-docs.js: appendEntry
\* ------------------------------------------------------------------------

\* `• ${entry}\n`
BulletEntry(entry) == <<BULLET, " ">> \o entry \o <<NL>>

\* `\n## ${todayHeading}\n`
HeadingText(todayHeading) == <<NL, "#", "#", " ">> \o todayHeading \o <<NL>>

\* the heading and the bullet as two requests
BuildRequestsSplit(position, todayHeading, entry) ==
    IF position.needsNewHeading
    THEN <<[insertText |-> [index |-> position.index, text |-> HeadingText(todayHeading)]],
           [insertText |-> [index |-> position.index + Len(HeadingText(todayHeading)),
                            text |-> BulletEntry(entry)]]>>
    ELSE <<[insertText |-> [index |-> position.index, text |-> BulletEntry(entry)]]>>

\* the bullet without its heading
BuildRequestsNoHeading(position, todayHeading, entry) ==
    <<[insertText |-> [index |-> position.index, text |-> BulletEntry(entry)]]>>

\* the requests array handed to batchUpdate
BuildRequests(position, todayHeading, entry) ==
    IF position.needsNewHeading
    THEN <<[insertText |-> [index |-> position.index,
                            text |-> HeadingText(todayHeading) \o BulletEntry(entry)]]>>
    ELSE <<[insertText |-> [index |-> position.index, text |-> BulletEntry(entry)]]>>

RECURSIVE ApplyRequests(_, _)
\* batchUpdate applies the requests in order
ApplyRequests(d, requests) ==
    IF requests = <<>> THEN d
    ELSE ApplyRequests(InsertText(d, Head(requests).insertText.index,
                                  Head(requests).insertText.text), Tail(requests))

RECURSIVE RequestsValid(_, _)
\* the batch is rejected as a whole when one request has an invalid index
RequestsValid(d, requests) ==
    IF requests = <<>> THEN TRUE
    ELSE /\ ValidInsertIndex(d, Head(requests).insertText.index)
         /\ RequestsValid(InsertText(d, Head(requests).insertText.index,
                                     Head(requests).insertText.text), Tail(requests))

\* ------------------------------------------------------------------------
\* services/llm.js
\* ------------------------------------------------------------------------

\* s.replace(/^[-•*]\s*/, '')
StripLeadingBullet(s) ==
    IF s # <<>> /\ Head(s) \in {"-", BULLET, "*"} THEN TrimStart(Tail(s)) ELSE s

RECURSIVE CollapseSpaces(_)
\* s.replace(/\s+/g, ' ')
CollapseSpaces(s) ==
    IF s = <<>> THEN <<>>
    ELSE IF IsSpace(Head(s)) THEN <<" ">> \o CollapseSpaces(TrimStart(s))
    ELSE <<Head(s)>> \o CollapseSpaces(Tail(s))

\* (?!\s*\d) fails at position i: optional white space, then a digit
DigitFollows(s, i) ==
    LET rest == TrimStart(SubSeq(s, i, Len(s))) IN rest # <<>> /\ IsDigit(Head(rest))

\* a separator of /[,;](?!\s*\d)/ at position i
IsSeparatorAt(s, i) == s[i] \in {",", ";"} /\ ~DigitFollows(s, i + 1)

RECURSIVE SplitOnSeparators(_)
\* s.split(/[,;](?!\s*\d)/)
SplitOnSeparators(s) ==
    IF \A i \in 1..Len(s) : ~IsSeparatorAt(s, i) THEN <<s>>
    ELSE LET k == CHOOSE i \in 1..Len(s) :
                      IsSeparatorAt(s, i) /\ \A j \in 1..(i - 1) : ~IsSeparatorAt(s, j)
         IN  <<SubSeq(s, 1, k - 1)>> \o SplitOnSeparators(SubSeq(s, k + 1, Len(s)))

\* the separator of join('\n• ')
BulletSeparator == <<NL, BULLET, " ">>

\* .map(s => s.trim())
TrimAll(parts) == [i \in 1..Len(parts) |-> Trim(parts[i])]

\* cleanupEntry.  After the white space is collapsed the string has no line
\* break left, so the m flag of /^[-•*]\s*/gm adds no place to match.
cleanupEntry(input) ==
    JoinWith(FilterNonBlank(TrimAll(SplitOnSeparators(
                 StripLeadingBullet(CollapseSpaces(Trim(input)))))), BulletSeparator)

\* what refineEntry makes of the text the model returned
FormatResponse(responseText) ==
    LET response == Trim(responseText)
        lines == FilterNonBlank(SplitOn(response, NL))
    IN  IF Len(lines) > 1
        THEN JoinWith([i \in 1..Len(lines) |-> Trim(StripLeadingBullet(lines[i]))],
                      BulletSeparator)
        ELSE Trim(StripLeadingBullet(response))

\* the input handed on as it came
refineEntryRaw(rawInput, keySet, outcome) == rawInput

\* refineEntry.  keySet: GEMINI_API_KEY is set; outcome: what generateContent
\* does, [ok |-> FALSE] when it rejects and [ok |-> TRUE, text |-> t] otherwise
refineEntry(rawInput, keySet, outcome) ==
    IF ~keySet THEN cleanupEntry(rawInput)
    ELSE IF outcome.ok THEN FormatResponse(outcome.text)
    ELSE cleanupEntry(rawInput)

\* ------------------------------------------------------------------------
\* Inputs
\* ------------------------------------------------------------------------

\* the texts of the direct messages
DMTexts == {<<"a">>, <<"b", NL, "c">>, <<"+", "d", ",", "e">>}

\* what the language model may answer
LLMOutcomes == {[ok |-> FALSE, text |-> <<>>],
                [ok |-> TRUE, text |-> <<"-", " ", "D", NL, "-", " ", "E", NL>>]}

\* the substrings the handler's catch block looks for in an error message
INVALID_GRANT == <<"i", "n", "v", "a", "l", "i", "d", "_", "g", "r", "a", "n", "t">>

TOKEN == <<"T", "o", "k", "e", "n">>

\* the messages of the errors a store call may be rejected with
StoreErrors == {INVALID_GRANT,
                <<"N", "o", " ", "T", "o", "k", "e", "n">>,
                <<"u", "n", "a", "v", "a", "i", "l", "a", "b", "l", "e">>}

Procs == {1, 2}

\* the timezone saveUser stores when none is given
DefaultTimezone == "America/New_York"

\* the timezone of a server process without TZ
UTC == "UTC"

NoUser == [exists |-> FALSE, google_doc_id |-> "null", google_refresh_token |-> "null",
           timezone |-> "null", reminder_time |-> <<>>,
           last_log_at |-> 0, current_streak |-> 0, longest_streak |-> 0]

\* the user record after /checkin setup
SetUpUser == [exists |-> TRUE, google_doc_id |-> "doc", google_refresh_token |-> "token",
              timezone |-> DefaultTimezone, reminder_time |-> <<"1", "7", ":", "0", "0">>,
              last_log_at |-> 0, current_streak |-> 0, longest_streak |-> 0]

\* MESSAGE_CACHE_TTL, in milliseconds
MESSAGE_CACHE_TTL == 60000

\* module.exports of services/google-docs.js
GoogleDocsExports == {"createCheckinDoc", "getDocContent", "extractTextContent",
                      "appendEntry", "getEntriesForDateRange"}

\* ------------------------------------------------------------------------
\* State
\* ------------------------------------------------------------------------

VARIABLES
    today,       \* the clock: the current calendar day in the user's timezone
    user,        \* the user's record in the users collection (last_log_at is the
                 \*   local calendar day of the timestamp, 0 when unset)
    doc,         \* the body of the user's document in the document store
    nMessages,   \* direct messages delivered so far
    pc,          \* per handler: "idle", "get" (awaiting documents.get),
                 \*   "update" (awaiting documents.batchUpdate) or "streak"
                 \*   (awaiting updateStreak)
    entryText,   \* per handler: the entry handed to appendEntry
    wasEnhanced, \* per handler: the message started with +
    snapshot,    \* per handler: the document appendEntry read
    heading,     \* per handler: the day whose heading appendEntry computed
    position,    \* per handler: the result of findInsertPosition
    calls,       \* per handler: the document-store calls of its appendEntry
    reply,       \* per handler: what it last said to the user
    cmdReply,    \* the response to the last /checkin command
    appended,    \* history: the entries written, in the order of the writes
    clock,       \* milliseconds since the process started
    processedMessages, \* the in-memory set of recently seen message keys
    timers,      \* the setTimeout calls of the handler: key, when it was
                 \*   set, when it is due, and whether and when the callback ran
    deliveries,  \* history: every delivery accepted as a user DM, with
                 \*   whether it passed the dedup check and what it issued
    current,     \* per handler: the delivery it is processing
    reminderUsers, \* the records of the users collection as
                 \*   getAllUsersForReminders returns them
    run,         \* the run of /api/trigger-reminders: where it stands, the
                 \*   users it examines, its count of sends, and history:
                 \*   the users examined and the sends attempted
    serverZone,  \* the timezone of the server process (TZ), in which
                 \*   new Date(string) and setHours work
    cmdCalls     \* history: the calls the last /checkin command made to the
                 \*   user store, the document store and the language model

vars == <<today, user, doc, nMessages, pc, entryText, wasEnhanced, snapshot, heading,
          position, calls, reply, cmdReply, appended, clock, processedMessages, timers,
          deliveries, current, reminderUsers, run, serverZone,
          cmdCalls>>

\* the environment of the server process
envVars == <<serverZone>>

\* the dedup cache with its timers and the clock
cacheVars == <<clock, processedMessages, timers>>

\* the reminder endpoint
reminderVars == <<reminderUsers, run>>

\* no run of /api/trigger-reminders is under way
NoRun == [pc |-> "idle", users |-> <<>>, now |-> [day |-> 0, minutes |-> 0, h24 |-> FALSE],
          i |-> 0, sent |-> 0, examined |-> <<>>, sends |-> <<>>, status |-> 0,
          reminders_sent |-> 0, runs |-> 0, log |-> <<>>]

NoPosition == [index |-> 0, needsNewHeading |-> FALSE]

Init ==
    /\ today = 1
    /\ user \in {NoUser, SetUpUser}
    /\ doc = IF user.exists THEN createCheckinDoc ELSE <<>>
    /\ nMessages = 0
    /\ pc = [p \in Procs |-> "idle"]
    /\ entryText = [p \in Procs |-> <<>>]
    /\ wasEnhanced = [p \in Procs |-> FALSE]
    /\ snapshot = [p \in Procs |-> <<>>]
    /\ heading = [p \in Procs |-> 0]
    /\ position = [p \in Procs |-> NoPosition]
    /\ calls = [p \in Procs |-> <<>>]
    /\ reply = [p \in Procs |-> "none"]
    /\ cmdReply = [kind |-> "none", text |-> <<>>]
    /\ appended = <<>>
    /\ clock = 0
    /\ processedMessages = {}
    /\ timers = <<>>
    /\ deliveries = <<>>
    /\ current = [p \in Procs |-> 0]
    /\ reminderUsers = <<>>
    /\ run = NoRun
    /\ serverZone = UTC
    /\ cmdCalls = <<>>

\* ------------------------------------------------------------------------
\* The clock
\* ------------------------------------------------------------------------

\* midnight in the user's timezone
Tick ==
    /\ today < MaxDay
    /\ today' = today + 1
    /\ UNCHANGED <<user, doc, nMessages, pc, entryText, wasEnhanced, snapshot, heading,
                   position, calls, reply, cmdReply, appended, cacheVars, deliveries,
                   current, reminderVars, envVars, cmdCalls>>

\* ------------------------------------------------------------------------
\* db/firestore.js: updateStreak
\* ------------------------------------------------------------------------

oneDayMs == 24 * 60 * 60 * 1000

\* the calendar days that, in a server timezone with daylight saving time,
\* last 23 hours and 25 hours
ShortDays == {2}

LongDays == {3}

\* new Date(str) followed by setHours(0, 0, 0, 0) and getTime(): the
\* milliseconds at which the calendar day `day` begins in the server's zone
getTime(day, zone) ==
    IF zone = UTC THEN day * oneDayMs
    ELSE (day * 24 - Cardinality({d \in ShortDays : d < day})
                   + Cardinality({d \in LongDays : d < day})) * (60 * 60 * 1000)

\* the streak updateStreak computes from the record u on the calendar day
\* `day`: the if / else-if chain on the two midnights
newStreakOf(u, day, zone) ==
    LET lastLogDate == u.last_log_at
    IN  IF lastLogDate = 0 THEN 1
        ELSE IF getTime(day, zone) = getTime(lastLogDate, zone) THEN u.current_streak
        ELSE IF getTime(day, zone) - getTime(lastLogDate, zone) = oneDayMs
        THEN u.current_streak + 1
        ELSE IF getTime(day, zone) - getTime(lastLogDate, zone) > oneDayMs THEN 1
        ELSE u.current_streak

\* updateStreak without Math.max
updateStreakLatest(u, day, zone) ==
    IF ~u.exists THEN [streak |-> 0, user |-> u]
    ELSE [streak |-> newStreakOf(u, day, zone),
          user |-> [u EXCEPT !.last_log_at = day,
                             !.current_streak = newStreakOf(u, day, zone),
                             !.longest_streak = newStreakOf(u, day, zone)]]

\* updateStreak on the record u when the local calendar day is day: the
\* returned streak and the record after docRef.update
updateStreak(u, day, zone) ==
    IF ~u.exists THEN [streak |-> 0, user |-> u]
    ELSE LET newStreak == newStreakOf(u, day, zone)
         IN  [streak |-> newStreak,
              user |-> [u EXCEPT !.last_log_at = day,
                                 !.current_streak = newStreak,
                                 !.longest_streak = IF newStreak > u.longest_streak
                                                    THEN newStreak ELSE u.longest_streak]]

\* ------------------------------------------------------------------------
\* events/message.js: the direct-message handler
\* ------------------------------------------------------------------------

\* a key is never found in the set
NeverHas(set, key) == FALSE

\* processedMessages.has(messageKey)
has(set, key) == key \in set

\* a timer set at the time now is due at once
DueAtOnce(now) == now

\* when the callback of setTimeout(..., MESSAGE_CACHE_TTL), called at the time
\* now, is due
Due(now) == now + MESSAGE_CACHE_TTL

\* the record of a delivery with the key `key` that arrives now
NewDelivery(key, passed) ==
    [key |-> key, at |-> clock, passed |-> passed, appends |-> 0, streaks |-> 0]

\* The handler up to its call of appendEntry: a direct message with the
\* message key `key` and the text t is delivered.
ReceiveMessage(p, key, t, keySet, outcome) ==
    /\ pc[p] = "idle"
    /\ nMessages < MaxMessages
    /\ nMessages' = nMessages + 1
    /\ IF has(processedMessages, key)
       THEN /\ deliveries' = Append(deliveries, NewDelivery(key, FALSE))
            /\ UNCHANGED <<processedMessages, timers, current, pc, entryText, wasEnhanced,
                           calls, reply>>
       ELSE /\ processedMessages' = processedMessages \cup {key}
            /\ timers' = Append(timers, [key |-> key, setAt |-> clock, due |-> Due(clock),
                                         fired |-> FALSE, firedAt |-> 0])
            /\ current' = [current EXCEPT ![p] = Len(deliveries) + 1]
            /\ IF Trim(t) = <<>>
               THEN /\ deliveries' = Append(deliveries, NewDelivery(key, TRUE))
                    /\ UNCHANGED <<pc, entryText, wasEnhanced, calls, reply>>
               ELSE IF ~user.exists \/ user.google_doc_id = "null"
               THEN /\ deliveries' = Append(deliveries, NewDelivery(key, TRUE))
                    /\ reply' = [reply EXCEPT ![p] = "setup_required"]
                    /\ UNCHANGED <<pc, entryText, wasEnhanced, calls>>
               ELSE IF user.google_refresh_token = "null"
               THEN /\ deliveries' = Append(deliveries, NewDelivery(key, TRUE))
                    /\ reply' = [reply EXCEPT ![p] = "reconnect"]
                    /\ UNCHANGED <<pc, entryText, wasEnhanced, calls>>
               ELSE /\ deliveries' = Append(deliveries,
                                            [NewDelivery(key, TRUE) EXCEPT !.appends = 1])
                    /\ entryText' = [entryText EXCEPT ![p] =
                                        IF StartsWith(t, <<"+">>)
                                        THEN refineEntry(Trim(Tail(t)), keySet, outcome)
                                        ELSE t]
                    /\ wasEnhanced' = [wasEnhanced EXCEPT ![p] = StartsWith(t, <<"+">>)]
                    /\ calls' = [calls EXCEPT ![p] = <<>>]
                    /\ reply' = [reply EXCEPT ![p] = "none"]
                    /\ pc' = [pc EXCEPT ![p] = "get"]
    /\ UNCHANGED <<today, user, doc, snapshot, heading, position, cmdReply, appended, clock, reminderVars, envVars, cmdCalls>>

\* the callback of a setTimeout of the handler runs, at its due time or later
TimerFires(i) ==
    /\ i \in 1..Len(timers)
    /\ ~timers[i].fired
    /\ clock >= timers[i].due
    /\ processedMessages' = processedMessages \ {timers[i].key}
    /\ timers' = [timers EXCEPT ![i] = [@ EXCEPT !.fired = TRUE, !.firedAt = clock]]
    /\ UNCHANGED <<today, user, doc, nMessages, pc, entryText, wasEnhanced, snapshot, heading,
                   position, calls, reply, cmdReply, appended, clock, deliveries, current, reminderVars, envVars, cmdCalls>>

\* time passes
AdvanceClock ==
    /\ clock < MaxClockSteps * (MESSAGE_CACHE_TTL \div 2)
    /\ clock' = clock + (MESSAGE_CACHE_TTL \div 2)
    /\ UNCHANGED <<today, user, doc, nMessages, pc, entryText, wasEnhanced, snapshot, heading,
                   position, calls, reply, cmdReply, appended, processedMessages, timers,
                   deliveries, current, reminderVars, envVars, cmdCalls>>

\* a catch block with the generic reply only
AlwaysFailed(err) == "failed"

\* the reply of the handler's catch block to an error with the message err
FailureReply(err) ==
    IF Includes(err, INVALID_GRANT) \/ Includes(err, TOKEN) THEN "reconnect" ELSE "failed"

\* appendEntry: documents.get answers; the heading, the position and the
\* requests are computed from the answer
GetDocument(p) ==
    /\ pc[p] = "get"
    /\ snapshot' = [snapshot EXCEPT ![p] = doc]
    /\ heading' = [heading EXCEPT ![p] = today]
    /\ position' = [position EXCEPT ![p] =
                       findInsertPosition(Content(doc), getTodayHeading(today))]
    /\ calls' = [calls EXCEPT ![p] = Append(@, [op |-> "get"])]
    /\ pc' = [pc EXCEPT ![p] = "update"]
    /\ UNCHANGED <<today, user, doc, nMessages, entryText, wasEnhanced, reply, cmdReply,
                   appended, cacheVars, deliveries, current, reminderVars, envVars, cmdCalls>>

\* appendEntry: documents.get is rejected; the handler's catch block replies
GetDocumentFails(p, err) ==
    /\ pc[p] = "get"
    /\ calls' = [calls EXCEPT ![p] = Append(@, [op |-> "get"])]
    /\ reply' = [reply EXCEPT ![p] = FailureReply(err)]
    /\ pc' = [pc EXCEPT ![p] = "idle"]
    /\ UNCHANGED <<today, user, doc, nMessages, entryText, wasEnhanced, snapshot, heading,
                   position, cmdReply, appended, cacheVars, deliveries, current, reminderVars, envVars, cmdCalls>>

\* requests computed from the document as it is when they are sent
RequestsOfFresh(p) ==
    BuildRequests(findInsertPosition(Content(doc), getTodayHeading(heading[p])),
                  getTodayHeading(heading[p]), entryText[p])

\* the requests appendEntry sends for handler p
RequestsOf(p) == BuildRequests(position[p], getTodayHeading(heading[p]), entryText[p])

\* appendEntry: documents.batchUpdate is applied and appendEntry returns;
\* the handler goes on to updateStreak
BatchUpdate(p) ==
    /\ pc[p] = "update"
    /\ RequestsValid(doc, RequestsOf(p))
    /\ doc' = ApplyRequests(doc, RequestsOf(p))
    /\ calls' = [calls EXCEPT ![p] = Append(@, [op |-> "batchUpdate",
                                                requests |-> RequestsOf(p)])]
    /\ appended' = Append(appended, [day |-> heading[p], entry |-> entryText[p]])
    /\ snapshot' = [snapshot EXCEPT ![p] = <<>>]
    /\ pc' = [pc EXCEPT ![p] = "streak"]
    /\ UNCHANGED <<today, user, nMessages, entryText, wasEnhanced, heading, position,
                   reply, cmdReply, cacheVars, deliveries, current, reminderVars, envVars, cmdCalls>>

\* appendEntry: documents.batchUpdate is rejected; nothing is applied
BatchUpdateFails(p, err) ==
    /\ pc[p] = "update"
    /\ calls' = [calls EXCEPT ![p] = Append(@, [op |-> "batchUpdate",
                                                requests |-> RequestsOf(p)])]
    /\ reply' = [reply EXCEPT ![p] = FailureReply(err)]
    /\ snapshot' = [snapshot EXCEPT ![p] = <<>>]
    /\ pc' = [pc EXCEPT ![p] = "idle"]
    /\ UNCHANGED <<today, user, doc, nMessages, entryText, wasEnhanced, heading, position,
                   cmdReply, appended, cacheVars, deliveries, current, reminderVars, envVars, cmdCalls>>

\* the handler after appendEntry: updateStreak writes the record and the
\* handler confirms
UpdateStreak(p) ==
    /\ pc[p] = "streak"
    /\ user' = updateStreak(user, today, serverZone).user
    /\ deliveries' = [deliveries EXCEPT ![current[p]].streaks = @ + 1]
    /\ reply' = [reply EXCEPT ![p] = IF wasEnhanced[p] THEN "logged_enhanced" ELSE "logged"]
    /\ pc' = [pc EXCEPT ![p] = "idle"]
    /\ UNCHANGED <<today, doc, nMessages, entryText, wasEnhanced, snapshot, heading,
                   position, calls, cmdReply, appended, cacheVars, current, reminderVars, envVars, cmdCalls>>

\* the handler after appendEntry: updateStreak is rejected by the user
\* store; the handler's catch block replies
UpdateStreakFails(p, err) ==
    /\ pc[p] = "streak"
    /\ deliveries' = [deliveries EXCEPT ![current[p]].streaks = @ + 1]
    /\ reply' = [reply EXCEPT ![p] = FailureReply(err)]
    /\ pc' = [pc EXCEPT ![p] = "idle"]
    /\ UNCHANGED <<today, user, doc, nMessages, entryText, wasEnhanced, snapshot, heading,
                   position, calls, cmdReply, appended, cacheVars, current, reminderVars, envVars, cmdCalls>>

\* ------------------------------------------------------------------------
\* commands/checkin.js: /checkin undo
\* ------------------------------------------------------------------------

Max(S) == CHOOSE x \in S : \A y \in S : y <= x

\* a paragraph whose text, trimmed, starts with the bullet
IsBulletParagraph(par) == StartsWith(Trim(par.text), <<BULLET>>)

\* deleteContentRange of [startIndex, endIndex)
DeleteRange(d, startIndex, endIndex) ==
    SubSeq(d, 1, startIndex - 1) \o SubSeq(d, endIndex, Len(d))

\* removeLastEntry as the specification describes it: the last bullet
\* paragraph in document order is deleted and its text returned.  The
\* repository defines no such function.
removeLastEntry(d) ==
    LET content == Content(d)
        bullets == {i \in 1..Len(content) : IsBulletParagraph(content[i])}
    IN  IF bullets = {} THEN [removed |-> FALSE, text |-> <<>>, doc |-> d]
        ELSE LET par == content[Max(bullets)]
             IN  [removed |-> TRUE,
                  text |-> Trim(Tail(Trim(par.text))),
                  doc |-> DeleteRange(d, par.startIndex, par.endIndex)]

\* handleUndo.  removeLastEntry is destructured from the exports of
\* services/google-docs.js; when the module does not export it the call
\* throws a TypeError inside the try block and the catch block answers.
handleUndo ==
    /\ IF ~user.exists \/ user.google_doc_id = "null"
       THEN /\ cmdReply' = [kind |-> "setup_required", text |-> <<>>]
            /\ cmdCalls' = <<"getUser">>
            /\ doc' = doc
       ELSE IF "removeLastEntry" \notin GoogleDocsExports
       THEN /\ cmdReply' = [kind |-> "undo_error", text |-> <<>>]
            /\ cmdCalls' = <<"getUser">>
            /\ doc' = doc
       ELSE LET removed == removeLastEntry(doc)
            IN  /\ doc' = removed.doc
                /\ cmdCalls' = <<"getUser", "removeLastEntry">>
                /\ cmdReply' = IF removed.removed
                               THEN [kind |-> "removed", text |-> removed.text]
                               ELSE [kind |-> "no_entries", text |-> <<>>]
    /\ UNCHANGED <<today, user, nMessages, pc, entryText, wasEnhanced, snapshot, heading,
                   position, calls, reply, appended, cacheVars, deliveries, current,
                   reminderVars, envVars>>

\* ------------------------------------------------------------------------
\* Specifications
\* ------------------------------------------------------------------------

\* the key of a message that was not delivered before: every message of a
\* channel has its own ts
FreshKey == nMessages + 1

\* the handlers run as the event loop interleaves them
Next ==
    \/ Tick
    \/ \E p \in Procs, t \in DMTexts, keySet \in BOOLEAN, outcome \in LLMOutcomes :
           ReceiveMessage(p, FreshKey, t, keySet, outcome)
    \/ \E p \in Procs : GetDocument(p)
    \/ \E p \in Procs, err \in StoreErrors : GetDocumentFails(p, err)
    \/ \E p \in Procs : BatchUpdate(p)
    \/ \E p \in Procs, err \in StoreErrors : BatchUpdateFails(p, err)
    \/ \E p \in Procs : UpdateStreak(p)
    \/ \E p \in Procs, err \in StoreErrors : UpdateStreakFails(p, err)
    \/ handleUndo

Spec == Init /\ [][Next]_vars

\* one message is handled to its end before the next arrives; the user
\* store answers every call
NextSeq ==
    \/ Tick
    \/ \E t \in DMTexts, keySet \in BOOLEAN, outcome \in LLMOutcomes :
           ReceiveMessage(1, FreshKey, t, keySet, outcome)
    \/ GetDocument(1)
    \/ \E err \in StoreErrors : GetDocumentFails(1, err)
    \/ BatchUpdate(1)
    \/ \E err \in StoreErrors : BatchUpdateFails(1, err)
    \/ UpdateStreak(1)
    \/ handleUndo

SpecSeq == Init /\ [][NextSeq]_vars

\* ------------------------------------------------------------------------
\* Reading a document as Groups of Entries
\* ------------------------------------------------------------------------

Min(S) == CHOOSE x \in S : \A y \in S : x <= y

\* the heading paragraph appendEntry writes for day n, without its newline
HeadingParagraph(n) == <<"#", "#", " ">> \o getTodayHeading(n)

\* paragraph par is the heading of day n
IsHeadingOf(par, n) == Trim(par.text) = HeadingParagraph(n)

\* paragraph par is a day heading of any day, in the form appendEntry writes
\* or without the marker in front
IsDayHeading(par) ==
    \E k \in 1..Len(days) :
        \/ StartsWith(Trim(par.text), <<"#", "#", " ">> \o days[k] \o <<",">>)
        \/ StartsWith(Trim(par.text), days[k] \o <<",">>)

\* the days of the model's clock
ClockDays == 1..MaxDay

RECURSIVE HeadingDaysFrom(_, _)
HeadingDaysFrom(content, i) ==
    IF i > Len(content) THEN <<>>
    ELSE IF Head(content[i].text) = "#" /\ \E n \in ClockDays : IsHeadingOf(content[i], n)
    THEN <<CHOOSE n \in ClockDays : IsHeadingOf(content[i], n)>>
             \o HeadingDaysFrom(content, i + 1)
    ELSE HeadingDaysFrom(content, i + 1)

\* the days of the heading paragraphs of d, in document order
HeadingDays(d) == HeadingDaysFrom(Content(d), 1)

\* the number of heading paragraphs of day n in d
HeadingCount(d, n) ==
    LET content == Content(d)
        heading_n == HeadingParagraph(n)
    IN  Cardinality({i \in 1..Len(content) : Trim(content[i].text) = heading_n})

\* a paragraph's text without its newline
LineOf(par) == SubSeq(par.text, 1, Len(par.text) - 1)

NonBlank(par) == Trim(par.text) # <<>>

\* index in content of the first day heading after paragraph h
\* (Len(content) + 1 when there is none)
NextHeadingAfter(content, h) ==
    Min({j \in (h + 1)..Len(content) : IsDayHeading(content[j])} \cup {Len(content) + 1})

\* The Group of day n in d: the lines after the first heading paragraph of
\* day n, up to the next day heading or the end of the document.
GroupLines(d, n) ==
    LET content == Content(d)
        hs == {i \in 1..Len(content) : IsHeadingOf(content[i], n)}
    IN  IF hs = {} THEN <<>>
        ELSE LET h == Min(hs)
                 members == SelectSeq(SubSeq(content, h + 1, NextHeadingAfter(content, h) - 1),
                                      NonBlank)
             IN  [i \in 1..Len(members) |-> LineOf(members[i])]

\* the lines an entry makes in the document
EntryLines(entry) == SplitOn(<<BULLET, " ">> \o entry, NL)

RECURSIVE WrittenLines(_, _)
\* the lines of the entries written for day n, in the order of the writes
WrittenLines(history, n) ==
    IF history = <<>> THEN <<>>
    ELSE IF Head(history).day = n
    THEN EntryLines(Head(history).entry) \o WrittenLines(Tail(history), n)
    ELSE WrittenLines(Tail(history), n)

\* some paragraph of d contains the heading of day n
SomeParagraphContains(d, n) ==
    LET content == Content(d)
        heading_n == getTodayHeading(n)
    IN  \E i \in 1..Len(content) : Includes(content[i].text, heading_n)

\* ------------------------------------------------------------------------
\* Claims
\* ------------------------------------------------------------------------

\* C1: after sequential appends, the Group under each day's heading holds
\* exactly the entries appended on that day, as bullet lines in call order;
\* so N appends under today's heading add exactly those N entries to today's
\* Group and leave the lines of every other day's Group as they were.
C1_GroupsHoldTheirEntries ==
    \A n \in ClockDays :
        (\E i \in 1..Len(appended) : appended[i].day = n)
            => GroupLines(doc, n) = WrittenLines(appended, n)


\* a state in which a second entry was appended under a heading that has
\* the Group of an earlier day after it
C1_Witness ==
    /\ Len(appended) >= 3
    /\ appended[1].day < appended[2].day
    /\ appended[2].day = appended[3].day

Descending(s) == \A i, j \in 1..Len(s) : i < j => s[i] > s[j]

Ascending(s) == \A i, j \in 1..Len(s) : i < j => s[i] < s[j]

FirstContaining(content, n) ==
    Min({i \in 1..Len(content) : Includes(content[i].text, getTodayHeading(n))})

\* C5: when a paragraph of the document read contains today's heading,
\* findInsertPosition asks for no new heading and returns an index inside
\* today's Group: after the heading and before the next day heading.
C5_IndexInsideTodaysGroup ==
    \A p \in Procs :
        (pc[p] = "update" /\ SomeParagraphContains(snapshot[p], heading[p]))
            => LET content == Content(snapshot[p])
                   h == FirstContaining(content, heading[p])
                   next == NextHeadingAfter(content, h)
               IN  /\ ~position[p].needsNewHeading
                   /\ position[p].index >= content[h].endIndex - 1
                   /\ next <= Len(content) => position[p].index < content[next].startIndex


\* today's heading stands in front of an earlier day's Group and a further
\* entry for today is being placed
C5_Witness ==
    \E p \in Procs :
        /\ pc[p] = "update"
        /\ SomeParagraphContains(snapshot[p], heading[p])
        /\ NextHeadingAfter(Content(snapshot[p]),
                            FirstContaining(Content(snapshot[p]), heading[p]))
               <= Len(Content(snapshot[p]))

\* ------------------------------------------------------------------------
\* findInsertPosition on arbitrary snapshots
\* ------------------------------------------------------------------------

\* the paragraphs an arbitrary snapshot is made of
ParagraphTexts == {
    <<NL>>,
    <<"n", "o", "t", "e", NL>>,
    <<BULLET, " ", "a", NL>>,
    SubSeq(TitleHeadingText, 1, Len(TitleHeadingText) - 1),
    HeadingParagraph(1) \o <<NL>>}

RECURSIVE Concat(_)
Concat(parts) == IF parts = <<>> THEN <<>> ELSE Head(parts) \o Concat(Tail(parts))

\* every body of at most MaxParas of these paragraphs, the empty one included
ArbitraryDocs ==
    {Concat(parts) : parts \in UNION {[1..k -> ParagraphTexts] : k \in 0..MaxParas}}

\* appendEntry has just called documents.get on an arbitrary document
InitResolve ==
    /\ today \in 1..MaxDay
    /\ user = SetUpUser
    /\ doc \in ArbitraryDocs
    /\ nMessages = 0
    /\ pc = [p \in Procs |-> "get"]
    /\ entryText = [p \in Procs |-> <<"a">>]
    /\ wasEnhanced = [p \in Procs |-> FALSE]
    /\ snapshot = [p \in Procs |-> <<>>]
    /\ heading = [p \in Procs |-> 0]
    /\ position = [p \in Procs |-> NoPosition]
    /\ calls = [p \in Procs |-> <<>>]
    /\ reply = [p \in Procs |-> "none"]
    /\ cmdReply = [kind |-> "none", text |-> <<>>]
    /\ appended = <<>>
    /\ clock = 0
    /\ processedMessages = {}
    /\ timers = <<>>
    /\ deliveries = <<>>
    /\ current = [p \in Procs |-> 0]
    /\ reminderUsers = <<>>
    /\ run = NoRun
    /\ serverZone = UTC
    /\ cmdCalls = <<>>

NextResolve == \E p \in Procs : GetDocument(p)

SpecResolve == InitResolve /\ [][NextResolve]_vars

\* C6: for a snapshot in which no paragraph contains today's heading,
\* findInsertPosition returns needsNewHeading = TRUE and the end index of
\* the first paragraph with the title marker, or 2 when no paragraph has
\* the marker (as for an empty paragraph list); the document is as it was.
C6_FallbackPosition ==
    \A p \in Procs :
        (pc[p] = "update" /\ ~SomeParagraphContains(snapshot[p], heading[p]))
            => LET content == Content(snapshot[p])
                   marked == {i \in 1..Len(content) : HasTitleMarker(content[i].text)}
               IN  /\ position[p].needsNewHeading
                   /\ position[p].index =
                          IF marked = {} THEN 2 ELSE content[Min(marked)].endIndex
                   /\ doc = snapshot[p]

\* the title marker is found in a paragraph that is not the first one
C6_Witness ==
    \E p \in Procs :
        /\ pc[p] = "update"
        /\ ~SomeParagraphContains(snapshot[p], heading[p])
        /\ Len(Content(snapshot[p])) >= 2
        /\ ~HasTitleMarker(Content(snapshot[p])[1].text)
        /\ HasTitleMarker(Content(snapshot[p])[2].text)
        /\ position[p].index = Content(snapshot[p])[2].endIndex

\* the insertText an appendEntry call is to send: at the resolved index,
\* the heading section with the bullet line, or the bullet line alone
ExpectedRequest(p) ==
    [insertText |->
        [index |-> position[p].index,
         text |-> IF position[p].needsNewHeading
                  THEN <<NL, "#", "#", " ">> \o getTodayHeading(heading[p]) \o <<NL>>
                           \o <<BULLET, " ">> \o entryText[p] \o <<NL>>
                  ELSE <<BULLET, " ">> \o entryText[p] \o <<NL>>]]

\* C7: the document-store calls of an appendEntry call are one
\* documents.get, then one batchUpdate that carries the one expected
\* insertText; a call that succeeded made both; and every change of the
\* document is the whole text of one such request put in at its index.
C7_OneReadOneAtomicUpdate ==
    [][/\ \A p \in Procs :
              /\ calls'[p] \in {<<>>, <<[op |-> "get"]>>,
                                <<[op |-> "get"],
                                  [op |-> "batchUpdate", requests |-> <<ExpectedRequest(p)'>>]>>}
              /\ reply'[p] \in {"logged", "logged_enhanced"} => Len(calls'[p]) = 2
       /\ doc' # doc =>
              \E p \in Procs :
                  /\ pc[p] = "update"
                  /\ doc' = InsertText(doc, ExpectedRequest(p).insertText.index,
                                       ExpectedRequest(p).insertText.text)]_vars

\* a heading and its first bullet have been written by one call
C7_Witness ==
    \E p \in Procs :
        /\ reply[p] = "logged"
        /\ Len(calls[p]) = 2
        /\ position[p].needsNewHeading
        /\ GroupLines(doc, heading[p]) # <<>>

\* the lines of t that start with the bullet
BulletLineCount(t) ==
    Cardinality({i \in 1..Len(SplitOn(t, NL)) : StartsWith(SplitOn(t, NL)[i], <<BULLET>>)})

\* C8: an entry of k >= 2 lines puts k bullet-prefixed lines into the
\* document, one per line of the entry.
C8_OneBulletPerLine ==
    \A p \in Procs :
        (reply[p] \in {"logged", "logged_enhanced"} /\ Len(SplitOn(entryText[p], NL)) >= 2)
            => BulletLineCount(calls[p][2].requests[1].insertText.text)
                   = Len(SplitOn(entryText[p], NL))

\* C9: /checkin undo after at least one append deletes exactly the last
\* bullet paragraph of the document and answers with its text.
C9_UndoRemovesLastEntry ==
    [][(handleUndo /\ user.exists /\ appended # <<>> /\ removeLastEntry(doc).removed)
       => /\ doc' = removeLastEntry(doc).doc
          /\ cmdReply' = [kind |-> "removed", text |-> removeLastEntry(doc).text]]_vars

\* C10: /checkin undo of a set-up user on a document without a bullet
\* paragraph answers that there is nothing to remove, not with the error,
\* and leaves the document as it is.
C10_UndoOfNothing ==
    [][(handleUndo /\ user.exists /\ ~removeLastEntry(doc).removed)
       => /\ cmdReply'.kind = "no_entries"
          /\ doc' = doc]_vars

\* ------------------------------------------------------------------------
\* Reading entries back: the regular expressions and string methods
\* ------------------------------------------------------------------------

LowerCase == <<"a", "b", "c", "d", "e", "f", "g", "h", "i", "j", "k", "l", "m", "n", "o", "p", "q", "r", "s", "t", "u", "v", "w", "x", "y", "z">>

UpperCase == <<"A", "B", "C", "D", "E", "F", "G", "H", "I", "J", "K", "L", "M", "N", "O", "P", "Q", "R", "S", "T", "U", "V", "W", "X", "Y", "Z">>

\* \s, \d and \w of a regular expression, on the characters of one line
SpaceChars == {" ", "\t"}

DigitChars == {Digits[i] : i \in 1..Len(Digits)}

WordChars ==
    {LowerCase[i] : i \in 1..Len(LowerCase)} \cup {UpperCase[i] : i \in 1..Len(UpperCase)}
        \cup DigitChars \cup {"_"}

\* a string as it is
KeepCase(str) == str

\* String.prototype.toLowerCase
ToLowerChar(c) ==
    IF \E i \in 1..Len(UpperCase) : UpperCase[i] = c
    THEN LowerCase[CHOOSE i \in 1..Len(UpperCase) : UpperCase[i] = c]
    ELSE c

toLowerCase(str) == [i \in 1..Len(str) |-> ToLowerChar(str[i])]

\* the index after the longest run of characters of S that starts at i: how
\* far a greedy X+ or X* reaches
RECURSIVE SpanEnd(_, _, _)
SpanEnd(str, i, S) ==
    IF i <= Len(str) /\ str[i] \in S THEN SpanEnd(str, i + 1, S) ELSE i

\* parseInt of a run of digits
RECURSIVE ParseInt(_)
ParseInt(digits) ==
    IF digits = <<>> THEN 0
    ELSE ParseInt(SubSeq(digits, 1, Len(digits) - 1)) * 10
             + ((CHOOSE k \in 1..Len(Digits) : Digits[k] = digits[Len(digits)]) - 1)

\* where (Monday|...|Sunday), matches at i: the index after the comma, 0
\* when it does not match
WeekdayCommaEnd(line, i) ==
    LET named == {k \in 1..Len(days) :
                      StartsWith(SubSeq(line, i, Len(line)), days[k] \o <<",">>)}
    IN  IF named = {} THEN 0 ELSE i + Len(days[CHOOSE k \in named : TRUE]) + 1

\* where ^##?\s+ matches: the index after it, 0 when it does not match
HashPrefixEnd(line) ==
    IF line = <<>> \/ Head(line) # "#" THEN 0
    ELSE LET i == IF Len(line) >= 2 /\ line[2] = "#" THEN 3 ELSE 2
             j == SpanEnd(line, i, SpaceChars)
         IN  IF j > i THEN j ELSE 0

\* monthNames[name]; -1 stands for undefined
monthNames(name) ==
    IF \E k \in 1..Len(months) : months[k] = name
    THEN (CHOOSE k \in 1..Len(months) : months[k] = name) - 1
    ELSE 0 - 1

\* line.match(/^##?\s+(Monday|...|Sunday),\s+(\w+)\s+(\d+)\w+,\s+(\d+)/) of
\* getEntriesForDateRange: whether it matches, and groups 2, 3 and 4
RangeHeadingMatch(line) ==
    LET noMatch == [matched |-> FALSE, month |-> <<>>, day |-> <<>>, year |-> <<>>]
        a == HashPrefixEnd(line)
        b == IF a = 0 THEN 0 ELSE WeekdayCommaEnd(line, a)
        c == SpanEnd(line, b, SpaceChars)
        d == SpanEnd(line, c, WordChars)
        e == SpanEnd(line, d, SpaceChars)
        f == SpanEnd(line, e, DigitChars)
        g == SpanEnd(line, e, WordChars)
        h == SpanEnd(line, g + 1, SpaceChars)
        k == SpanEnd(line, h, DigitChars)
    IN  IF b = 0 \/ c = b \/ d = c \/ e = d \/ f = e \/ g < e + 2 THEN noMatch
        ELSE IF g > Len(line) \/ line[g] # "," \/ h = g + 1 \/ k = h THEN noMatch
        ELSE [matched |-> TRUE,
              month |-> SubSeq(line, c, d - 1),
              day |-> SubSeq(line, e, (IF f = g THEN g - 1 ELSE f) - 1),
              year |-> SubSeq(line, h, k - 1)]

\* line.match(/^(##?\s+)?(Monday|...|Sunday),\s+(\w+)\s+(\d+)/) of handleSearch
SearchHeadingMatch(line) ==
    LET a == HashPrefixEnd(line)
        b == WeekdayCommaEnd(line, IF a = 0 THEN 1 ELSE a)
        c == SpanEnd(line, b, SpaceChars)
        d == SpanEnd(line, c, WordChars)
        e == SpanEnd(line, d, SpaceChars)
        f == SpanEnd(line, e, DigitChars)
    IN  b # 0 /\ c > b /\ d > c /\ e > d /\ f > e

\* line.replace(/^##?\s+/, '')
StripHashPrefix(line) ==
    IF HashPrefixEnd(line) = 0 THEN line ELSE SubSeq(line, HashPrefixEnd(line), Len(line))

\* line.trim().substring(1).trim()
BulletText(line) ==
    LET t == Trim(line) IN IF t = <<>> THEN <<>> ELSE Trim(Tail(t))

\* extractTextContent: the text runs of the paragraphs, one after another
extractTextContent(d) ==
    LET content == Content(d)
    IN  Concat([i \in 1..Len(content) |-> content[i].text])

\* ------------------------------------------------------------------------
\* services/google-docs.js: getEntriesForDateRange
\* ------------------------------------------------------------------------

\* new Date(year, month, day) and the Dates of a range: a local calendar
\* date with the time of day, 0 for 00:00:00.000 and 1 for 23:59:59.999;
\* valid is FALSE for the Invalid Date an undefined month makes
DateOf(year, month, day, time) ==
    [valid |-> month >= 0, year |-> year, month |-> month, day |-> day, time |-> time]

\* a < b on Dates
DateLT(a, b) ==
    /\ a.valid /\ b.valid
    /\ \/ a.year < b.year
       \/ a.year = b.year /\ a.month < b.month
       \/ a.year = b.year /\ a.month = b.month /\ a.day < b.day
       \/ a.year = b.year /\ a.month = b.month /\ a.day = b.day /\ a.time < b.time

\* a <= b on Dates; every comparison with an Invalid Date is false
DateLE(a, b) ==
    /\ a.valid /\ b.valid
    /\ \/ a.year < b.year
       \/ a.year = b.year /\ a.month < b.month
       \/ a.year = b.year /\ a.month = b.month /\ a.day < b.day
       \/ a.year = b.year /\ a.month = b.month /\ a.day = b.day /\ a.time <= b.time

NoDate == [valid |-> FALSE, year |-> 0, month |-> 0, day |-> 0, time |-> 0]

\* the loop over the lines: currentDate is NoDate/isSet = FALSE for null
RECURSIVE RangeScan(_, _, _, _, _, _)
RangeScan(lines, i, isSet, currentDate, startDate, endDate) ==
    IF i > Len(lines) THEN <<>>
    ELSE LET line == lines[i]
             dateMatch == RangeHeadingMatch(line)
         IN  IF dateMatch.matched
             THEN RangeScan(lines, i + 1, TRUE,
                            DateOf(ParseInt(dateMatch.year), monthNames(dateMatch.month),
                                   ParseInt(dateMatch.day), 0),
                            startDate, endDate)
             ELSE IF isSet /\ StartsWith(Trim(line), <<BULLET>>)
                        /\ DateLE(startDate, currentDate) /\ DateLE(currentDate, endDate)
             THEN <<[date |-> currentDate, text |-> BulletText(line)]>>
                      \o RangeScan(lines, i + 1, isSet, currentDate, startDate, endDate)
             ELSE RangeScan(lines, i + 1, isSet, currentDate, startDate, endDate)

\* the loop started with the first day of the clock as currentDate
getEntriesFromFirstDay(d, startDate, endDate) ==
    RangeScan(SplitOn(extractTextContent(d), NL), 1, TRUE,
              DateOf(LocalDate(1).getFullYear, LocalDate(1).getMonth, LocalDate(1).getDate, 0),
              startDate, endDate)

getEntriesForDateRange(d, startDate, endDate) ==
    RangeScan(SplitOn(extractTextContent(d), NL), 1, FALSE, NoDate, startDate, endDate)

\* ------------------------------------------------------------------------
\* commands/checkin.js: /checkin search
\* ------------------------------------------------------------------------

UnknownDate == <<"U", "n", "k", "n", "o", "w", "n", " ", "d", "a", "t", "e">>

\* the loop over the lines: currentDate is the empty string for null
RECURSIVE SearchScan(_, _, _, _)
SearchScan(lines, i, currentDate, keyword) ==
    IF i > Len(lines) THEN <<>>
    ELSE LET line == lines[i]
         IN  IF SearchHeadingMatch(line)
             THEN SearchScan(lines, i + 1, Trim(StripHashPrefix(line)), keyword)
             ELSE IF StartsWith(Trim(line), <<BULLET>>)
                        /\ Includes(toLowerCase(line), toLowerCase(keyword))
             THEN <<[date |-> IF currentDate = <<>> THEN UnknownDate ELSE currentDate,
                     text |-> BulletText(line)]>>
                      \o SearchScan(lines, i + 1, currentDate, keyword)
             ELSE SearchScan(lines, i + 1, currentDate, keyword)

\* the matches array of handleSearch
SearchMatches(d, keyword) ==
    SearchScan(SplitOn(extractTextContent(d), NL), 1, <<>>, keyword)

\* how many matches the reply of handleSearch lists
ShownMatches == 10

\* handleSearch with the argument keyword; storeAnswers is whether
\* documents.get answers
handleSearch(keyword, storeAnswers) ==
    /\ cmdReply' =
           IF Trim(keyword) = <<>>
           THEN [kind |-> "search_usage", text |-> keyword]
           ELSE IF ~user.exists \/ user.google_doc_id = "null"
           THEN [kind |-> "setup_required", text |-> <<>>]
           ELSE IF ~storeAnswers
           THEN [kind |-> "search_error", text |-> keyword]
           ELSE LET matches == SearchMatches(doc, keyword)
                IN  IF Len(matches) = 0
                    THEN [kind |-> "no_matches", text |-> keyword]
                    ELSE [kind |-> "found", text |-> keyword, records |-> matches,
                          shown |-> SubSeq(matches, 1, IF Len(matches) < ShownMatches
                                                       THEN Len(matches) ELSE ShownMatches)]
    /\ cmdCalls' = IF Trim(keyword) = <<>> THEN <<>>
                   ELSE IF ~user.exists \/ user.google_doc_id = "null" THEN <<"getUser">>
                   ELSE <<"getUser", "getDocContent">>
    /\ UNCHANGED <<today, user, doc, nMessages, pc, entryText, wasEnhanced, snapshot, heading,
                   position, calls, reply, appended, cacheVars, deliveries, current,
                   reminderVars, envVars>>

\* getEntriesForDateRange is called with the range [startDate, endDate] and
\* returns its entries
EntriesForDateRange(startDate, endDate) ==
    /\ user.exists
    /\ cmdReply' = [kind |-> "entries", text |-> <<>>,
                    range |-> <<startDate, endDate>>,
                    records |-> getEntriesForDateRange(doc, startDate, endDate)]
    /\ cmdCalls' = <<"getUser", "getDocContent">>
    /\ UNCHANGED <<today, user, doc, nMessages, pc, entryText, wasEnhanced, snapshot, heading,
                   position, calls, reply, appended, cacheVars, deliveries, current,
                   reminderVars, envVars>>

\* the keywords of /checkin search
Keywords == {<<>>, <<"c">>, <<"E">>, <<BULLET>>}

\* the Date of the local calendar day n of the clock, at time of day time
DayDate(n, time) ==
    DateOf(LocalDate(n).getFullYear, LocalDate(n).getMonth, LocalDate(n).getDate, time)

\* the ranges of getEntriesForDateRange: from the start of a day to the
\* start or the end of a day, also of an earlier day
DateRanges ==
    {<<DayDate(s, 0), DayDate(e, time)>> : s \in ClockDays, e \in ClockDays, time \in {0, 1}}

\* messages are logged one after another and the document is searched
NextQuery ==
    \/ Tick
    \/ \E t \in DMTexts, keySet \in BOOLEAN, outcome \in LLMOutcomes :
           ReceiveMessage(1, FreshKey, t, keySet, outcome)
    \/ GetDocument(1)
    \/ BatchUpdate(1)
    \/ UpdateStreak(1)
    \/ \E keyword \in Keywords, storeAnswers \in BOOLEAN : handleSearch(keyword, storeAnswers)

SpecQuery == Init /\ [][NextQuery]_vars

\* appendEntry as one step: what a call on day n with the text entry makes
\* of the document d when no other call runs between its read and its write
appendEntry(d, n, entry) ==
    LET todayHeading == getTodayHeading(n)
        found == findInsertPosition(Content(d), todayHeading)
    IN  ApplyRequests(d, BuildRequests(found, todayHeading, entry))

\* the entries the handler makes of the texts of the direct messages when
\* no language model is configured
EntryTexts ==
    {IF StartsWith(t, <<"+">>)
     THEN refineEntry(Trim(Tail(t)), FALSE, [ok |-> FALSE, text |-> <<>>])
     ELSE t : t \in DMTexts}

\* the documents that at most k further calls of appendEntry, on day n or
\* later days, make of the document d
RECURSIVE WrittenFrom(_, _, _)
WrittenFrom(d, n, k) ==
    {d} \cup (IF k = 0 THEN {}
              ELSE UNION {WrittenFrom(appendEntry(d, m, entry), m, k - 1) :
                              m \in n..MaxDay, entry \in EntryTexts})

\* a document written by at most MaxMessages calls of appendEntry is at hand
InitRange ==
    /\ today = MaxDay
    /\ user = SetUpUser
    /\ doc \in WrittenFrom(createCheckinDoc, 1, MaxMessages)
    /\ nMessages = 0
    /\ pc = [p \in Procs |-> "idle"]
    /\ entryText = [p \in Procs |-> <<>>]
    /\ wasEnhanced = [p \in Procs |-> FALSE]
    /\ snapshot = [p \in Procs |-> <<>>]
    /\ heading = [p \in Procs |-> 0]
    /\ position = [p \in Procs |-> NoPosition]
    /\ calls = [p \in Procs |-> <<>>]
    /\ reply = [p \in Procs |-> "none"]
    /\ cmdReply = [kind |-> "none", text |-> <<>>]
    /\ appended = <<>>
    /\ clock = 0
    /\ processedMessages = {}
    /\ timers = <<>>
    /\ deliveries = <<>>
    /\ current = [p \in Procs |-> 0]
    /\ reminderUsers = <<>>
    /\ run = NoRun
    /\ serverZone = UTC
    /\ cmdCalls = <<>>

\* the entries of a range of days are read back
NextRange == \E range \in DateRanges : EntriesForDateRange(range[1], range[2])

SpecRange == InitRange /\ [][NextRange]_vars

\* ------------------------------------------------------------------------
\* Reading back a document its owner has edited
\* ------------------------------------------------------------------------

\* the paragraphs of an edited document: bullet lines, one of them indented
\* and in capitals, a line of prose, and day headings with and without the
\* marker in front
EditedParagraphs == {
    <<BULLET, " ", "c", NL>>,
    <<" ", BULLET, " ", "e", " ", "C", " ", NL>>,
    <<"s", "e", "e", " ", "c", NL>>,
    HeadingParagraph(1) \o <<NL>>,
    getTodayHeading(MaxDay) \o <<NL>>}

\* every body of at most MaxParas of these paragraphs
EditedDocs ==
    {Concat(parts) : parts \in UNION {[1..k -> EditedParagraphs] : k \in 0..MaxParas}}

\* an edited document is at hand
InitSearch ==
    /\ today = MaxDay
    /\ user = SetUpUser
    /\ doc \in EditedDocs
    /\ nMessages = 0
    /\ pc = [p \in Procs |-> "idle"]
    /\ entryText = [p \in Procs |-> <<>>]
    /\ wasEnhanced = [p \in Procs |-> FALSE]
    /\ snapshot = [p \in Procs |-> <<>>]
    /\ heading = [p \in Procs |-> 0]
    /\ position = [p \in Procs |-> NoPosition]
    /\ calls = [p \in Procs |-> <<>>]
    /\ reply = [p \in Procs |-> "none"]
    /\ cmdReply = [kind |-> "none", text |-> <<>>]
    /\ appended = <<>>
    /\ clock = 0
    /\ processedMessages = {}
    /\ timers = <<>>
    /\ deliveries = <<>>
    /\ current = [p \in Procs |-> 0]
    /\ reminderUsers = <<>>
    /\ run = NoRun
    /\ serverZone = UTC
    /\ cmdCalls = <<>>

\* the document is searched and the entries of a range of days are read
NextSearch ==
    \/ \E keyword \in Keywords, storeAnswers \in BOOLEAN : handleSearch(keyword, storeAnswers)
    \/ \E range \in DateRanges : EntriesForDateRange(range[1], range[2])

SpecSearch == InitSearch /\ [][NextSearch]_vars

\* ------------------------------------------------------------------------
\* Claims about reading entries back
\* ------------------------------------------------------------------------

\* the bullet paragraphs of content, as indices
BulletParagraphs(content) == {i \in 1..Len(content) : IsBulletParagraph(content[i])}

\* the bullet paragraphs that stand before the first day heading
LeadingBullets(content) ==
    {i \in BulletParagraphs(content) : \A j \in 1..(i - 1) : ~IsDayHeading(content[j])}

\* a and b are the same character, or the same letter in the two cases
SameLetter(a, b) ==
    a = b \/ \E n \in 1..Len(LowerCase) : {a, b} = {LowerCase[n], UpperCase[n]}

\* k occurs in str when the case of letters is ignored
CaseInsensitiveIncludes(str, k) ==
    \E i \in 1..(Len(str) - Len(k) + 1) : \A j \in 1..Len(k) : SameLetter(str[i + j - 1], k[j])

\* the text of a bullet paragraph: its line without the bullet and the
\* whitespace around it
EntryTextOf(par) == Trim(Tail(Trim(par.text)))

\* C11 as stated: neither reader returns a record for a bullet line that
\* stands before the first day heading, so it returns at most as many
\* records as there are bullet lines after that heading.
C11_NoRecordBeforeHeading ==
    cmdReply.kind \in {"entries", "found"}
        => Len(cmdReply.records)
               <= Cardinality(BulletParagraphs(Content(doc)))
                      - Cardinality(LeadingBullets(Content(doc)))

\* C11, amended: getEntriesForDateRange returns no record for a bullet line
\* before the first day heading; handleSearch returns one record, dated
\* 'Unknown date', for every such line that contains the keyword, and dates
\* no other record so.
C11_UndatedOnlyInSearch ==
    LET content == Content(doc)
        undated == {i \in LeadingBullets(content) :
                        CaseInsensitiveIncludes(LineOf(content[i]), cmdReply.text)}
    IN  /\ cmdReply.kind = "entries"
               => Len(cmdReply.records)
                      <= Cardinality(BulletParagraphs(content))
                             - Cardinality(LeadingBullets(content))
        /\ cmdReply.kind = "found"
               => Cardinality({i \in 1..Len(cmdReply.records) :
                                   cmdReply.records[i].date = UnknownDate})
                      = Cardinality(undated)
        /\ cmdReply.kind = "no_matches" => undated = {}

\* a search has returned an undated record and a dated one
C11_Witness ==
    /\ cmdReply.kind = "found"
    /\ \E i, j \in 1..Len(cmdReply.records) :
           /\ cmdReply.records[i].date = UnknownDate
           /\ cmdReply.records[j].date # UnknownDate
    /\ LeadingBullets(Content(doc)) # {}

\* the bullet paragraphs of content from paragraph i on with the day of the
\* heading paragraph each stands under; owner is the day of the last
\* heading paragraph before i, 0 when there is none
RECURSIVE OwnedBullets(_, _, _)
OwnedBullets(content, i, owner) ==
    IF i > Len(content) THEN <<>>
    ELSE IF \E n \in ClockDays : IsHeadingOf(content[i], n)
    THEN OwnedBullets(content, i + 1, CHOOSE n \in ClockDays : IsHeadingOf(content[i], n))
    ELSE IF IsBulletParagraph(content[i])
    THEN <<[day |-> owner, text |-> EntryTextOf(content[i])]>>
             \o OwnedBullets(content, i + 1, owner)
    ELSE OwnedBullets(content, i + 1, owner)

\* C12: for a document written by appendEntry and a range from day s to
\* day e, getEntriesForDateRange returns the bullet entries that stand under
\* the heading of a day n with s <= n <= e, in document order, each with the
\* date of its heading, and nothing else.
C12_EntriesOfTheRange ==
    cmdReply.kind = "entries"
        => LET s == cmdReply.range[1].day
               e == cmdReply.range[2].day
               owned == OwnedBullets(Content(doc), 1, 0)
               expected == SelectSeq(owned, LAMBDA b : b.day # 0 /\ s <= b.day /\ b.day <= e)
           IN  cmdReply.records =
                   [i \in 1..Len(expected) |->
                       [date |-> DayDate(expected[i].day, 0), text |-> expected[i].text]]

\* a range has returned the entries of one day and left out those of another
C12_Witness ==
    /\ cmdReply.kind = "entries"
    /\ cmdReply.records # <<>>
    /\ Len(cmdReply.records) < Cardinality(BulletParagraphs(Content(doc)))
    /\ cmdReply.range[1].day = cmdReply.range[2].day

\* C13: a search for a keyword that occurs in an entry appendEntry has
\* written returns a record whose text is that entry.
C13_SearchFindsTheEntry ==
    [][\A keyword \in Keywords :
           (handleSearch(keyword, TRUE) /\ user.exists /\ keyword # <<>>)
               => \A i \in 1..Len(appended) :
                      Includes(appended[i].entry, keyword)
                          => /\ cmdReply'.kind = "found"
                             /\ \E r \in 1..Len(cmdReply'.records) :
                                    cmdReply'.records[r].text = appended[i].entry]_vars

\* the texts of the bullet paragraphs of d whose part(paragraph) contains
\* the keyword, case ignored, in document order
MatchingTexts(d, keyword, part(_)) ==
    LET content == Content(d)
        hits == SelectSeq([i \in 1..Len(content) |-> content[i]],
                          LAMBDA par : IsBulletParagraph(par)
                                           /\ CaseInsensitiveIncludes(part(par), keyword))
    IN  [i \in 1..Len(hits) |-> EntryTextOf(hits[i])]

\* the texts of the records a search returned
ReturnedTexts ==
    IF cmdReply.kind = "found"
    THEN [i \in 1..Len(cmdReply.records) |-> cmdReply.records[i].text]
    ELSE <<>>

\* C14 as stated: the matches are the bullet entries whose text, the line
\* without bullet and surrounding whitespace, contains the keyword.
C14_MatchOnEntryText ==
    cmdReply.kind \in {"found", "no_matches"}
        => ReturnedTexts = MatchingTexts(doc, cmdReply.text, EntryTextOf)

\* C14, amended: the matches are the bullet entries whose whole line, bullet
\* marker and whitespace included, contains the keyword, case ignored.
C14_MatchOnLine ==
    cmdReply.kind \in {"found", "no_matches"}
        => ReturnedTexts = MatchingTexts(doc, cmdReply.text, LineOf)

\* a keyword in capitals has matched an entry in small letters
C14_Witness ==
    /\ cmdReply.kind = "found"
    /\ cmdReply.text = <<"E">>
    /\ \E i \in 1..Len(cmdReply.records) : Includes(cmdReply.records[i].text, <<"e">>)

\* ------------------------------------------------------------------------
\* Repeated deliveries and the dedup cache
\* ------------------------------------------------------------------------

\* the message keys of the deliveries: two messages of the channel
MessageKeys == {1, 2}

\* Deliveries of messages, the same message also more than once, are handled
\* as the event loop interleaves the handlers; the document read may be
\* rejected; time passes and timers run.
NextDedup ==
    \/ \E p \in Procs, key \in MessageKeys :
           ReceiveMessage(p, key, <<"a">>, FALSE, [ok |-> FALSE, text |-> <<>>])
    \/ \E p \in Procs : GetDocument(p)
    \/ \E p \in Procs : GetDocumentFails(p, INVALID_GRANT)
    \/ \E p \in Procs : BatchUpdate(p)
    \/ \E p \in Procs : UpdateStreak(p)
    \/ AdvanceClock
    \/ \E i \in 1..Len(timers) : TimerFires(i)

SpecDedup == Init /\ [][NextDedup]_vars

\* C15: of the deliveries of one message key, the first is processed, and
\* none that arrives less than 60 seconds after a processed one is
\* processed; a processed delivery issues at most one appendEntry and at
\* most one updateStreak, a skipped one issues none, whatever became of the
\* processing of the first.
C15_OneDeliveryPerWindow ==
    \A i \in 1..Len(deliveries) :
        /\ deliveries[i].appends <= 1
        /\ deliveries[i].streaks <= deliveries[i].appends
        /\ ~deliveries[i].passed => deliveries[i].appends = 0
        /\ (\A j \in 1..(i - 1) : deliveries[j].key # deliveries[i].key)
               => deliveries[i].passed
        /\ \A j \in 1..(i - 1) :
               (/\ deliveries[j].key = deliveries[i].key
                /\ deliveries[j].passed
                /\ deliveries[i].at < deliveries[j].at + 60000)
                   => ~deliveries[i].passed

\* a message was delivered again 30 seconds after its first delivery, whose
\* processing had failed, and was skipped
C15_Witness ==
    \E i, j \in 1..Len(deliveries) :
        /\ i < j
        /\ deliveries[i].key = deliveries[j].key
        /\ deliveries[i].passed /\ deliveries[i].appends = 1 /\ deliveries[i].streaks = 0
        /\ \A p \in Procs : pc[p] = "idle"
        /\ deliveries[j].at > deliveries[i].at
        /\ ~deliveries[j].passed

\* the timers of ts that are set for the key k and have not run
PendingTimers(ts, k) == {i \in 1..Len(ts) : ts[i].key = k /\ ~ts[i].fired}

\* C16: a key is in the cache exactly while one timer is pending for it; a
\* timer runs no earlier than 60 seconds after it was set, and only a timer
\* of the key takes a key out of the cache; a delivery of a key that is in
\* the cache is skipped and changes neither the cache nor the timers; a
\* delivery of a key that is not in the cache (any more) is processed, and
\* puts the key in the cache with a new timer.
C16_KeyLivesSixtySeconds ==
    [][/\ \A k \in MessageKeys :
              /\ Cardinality(PendingTimers(timers', k)) <= 1
              /\ k \in processedMessages' <=> PendingTimers(timers', k) # {}
       /\ \A i \in 1..Len(timers') :
              timers'[i].fired => timers'[i].firedAt >= timers'[i].setAt + 60000
       /\ \A k \in processedMessages \ processedMessages' :
              \E i \in PendingTimers(timers, k) :
                  /\ timers'[i].fired
                  /\ clock >= timers[i].setAt + 60000
       /\ Len(deliveries') > Len(deliveries) =>
              LET delivered == deliveries'[Len(deliveries')]
              IN  IF delivered.key \in processedMessages
                  THEN /\ ~delivered.passed
                       /\ processedMessages' = processedMessages
                       /\ timers' = timers
                  ELSE /\ delivered.passed
                       /\ processedMessages' = processedMessages \cup {delivered.key}
                       /\ timers' = Append(timers,
                                           [key |-> delivered.key, setAt |-> clock,
                                            due |-> clock + 60000, fired |-> FALSE,
                                            firedAt |-> 0])]_vars

\* a key was skipped while in the cache, expired, and is in the cache again
\* with a new timer
C16_Witness ==
    \E i, j \in 1..Len(timers) :
        /\ i < j
        /\ timers[i].key = timers[j].key
        /\ timers[i].fired /\ ~timers[j].fired
        /\ timers[j].key \in processedMessages
        /\ \E d \in 1..Len(deliveries) :
               deliveries[d].key = timers[i].key /\ ~deliveries[d].passed

\* ------------------------------------------------------------------------
\* app.js: POST /api/trigger-reminders
\* ------------------------------------------------------------------------

OFF == <<"o", "f", "f">>

\* Number(str) of a run of digits, and of the empty string
Number(str) == ParseInt(str)

\* now.toLocaleTimeString('en-US', {hour: '2-digit', minute: '2-digit',
\* hour12: false}) at `minutes` minutes after midnight in the user's timezone
TwoDigits(n) == IF n < 10 THEN <<"0">> \o NumToStr(n) ELSE NumToStr(n)

\* (h24: the build prints the hour after midnight as 24, as ICU does for
\* hour12: false in en-US, and not as 00)
toLocaleTimeString(minutes, h24) ==
    TwoDigits(IF minutes \div 60 = 0 /\ h24 THEN 24 ELSE minutes \div 60)
        \o <<":">> \o TwoDigits(minutes % 60)

\* str.split(':').map(Number) and hour * 60 + minute of the result
MinutesOf(str) ==
    LET parts == SplitOn(str, ":") IN Number(parts[1]) * 60 + Number(parts[2])

Abs(n) == IF n < 0 THEN 0 - n ELSE n

\* the loop body up to the send: whether user is sent a reminder at `now`
\* (reminder_time is empty when unset; last_log_at is the local calendar day
\* of the timestamp, 0 when unset)
ReminderDueUnlessOff(u, now) == ~(u.reminder_time = <<>> \/ u.reminder_time = OFF)

ReminderDue(u, now) ==
    /\ ~(u.reminder_time = <<>> \/ u.reminder_time = OFF)
    /\ ~(Abs(MinutesOf(u.reminder_time)
                - MinutesOf(toLocaleTimeString(now.minutes, now.h24))) > 5)
    /\ ~(u.last_log_at # 0 /\ u.last_log_at = now.day)

\* a rejected send leaves the loop
SendUncaught(sent, sendOk) == [sent |-> IF sendOk THEN sent + 1 ELSE sent, thrown |-> ~sendOk]

\* the try block around chat.postMessage: the count after the send, and
\* whether an error leaves the loop body
Send(sent, sendOk) == [sent |-> IF sendOk THEN sent + 1 ELSE sent, thrown |-> FALSE]

\* the request arrives: the Authorization header is checked, the users are
\* read and `now` is taken; without users the response follows at once
TriggerReminders(secretSet, authorized, storeAnswers, now) ==
    /\ run.pc # "loop"
    /\ run.runs < MaxRuns
    /\ LET request == [NoRun EXCEPT !.runs = run.runs + 1, !.log = run.log, !.now = now]
       IN  run' = IF secretSet /\ ~authorized
                  THEN [request EXCEPT !.pc = "done", !.status = 401]
                  ELSE IF ~storeAnswers
                  THEN [request EXCEPT !.pc = "done", !.status = 500]
                  ELSE IF reminderUsers = <<>>
                  THEN [request EXCEPT !.pc = "done", !.status = 200]
                  ELSE [request EXCEPT !.pc = "loop", !.users = reminderUsers, !.i = 1]
    /\ UNCHANGED <<today, user, doc, nMessages, pc, entryText, wasEnhanced, snapshot, heading,
                   position, calls, reply, cmdReply, appended, cacheVars, deliveries, current,
                   reminderUsers, envVars, cmdCalls>>

\* one pass of the loop: the next user is examined and, when a reminder is
\* due, chat.postMessage is called and answers or is rejected; after the
\* last user the response is sent
ExamineUser(sendOk) ==
    /\ run.pc = "loop"
    /\ LET u == run.users[run.i]
           due == ReminderDue(u, run.now)
           outcome == IF due THEN Send(run.sent, sendOk)
                      ELSE [sent |-> run.sent, thrown |-> FALSE]
           last == run.i = Len(run.users)
       IN  run' = [run EXCEPT
                      !.examined = Append(@, run.i),
                      !.sends = IF due THEN Append(@, [to |-> run.i, ok |-> sendOk]) ELSE @,
                      !.log = IF due
                              THEN Append(@, [to |-> run.i, day |-> run.now.day,
                                              ok |-> sendOk])
                              ELSE @,
                      !.sent = outcome.sent,
                      !.i = @ + 1,
                      !.pc = IF outcome.thrown \/ last THEN "done" ELSE "loop",
                      !.status = IF outcome.thrown THEN 500 ELSE IF last THEN 200 ELSE 0,
                      !.reminders_sent = IF ~outcome.thrown /\ last THEN outcome.sent ELSE 0]
    /\ UNCHANGED <<today, user, doc, nMessages, pc, entryText, wasEnhanced, snapshot, heading,
                   position, calls, reply, cmdReply, appended, cacheVars, deliveries, current,
                   reminderUsers, envVars, cmdCalls>>

\* the records of the users collection: reminder at 09:00, reminders off,
\* reminder at 09:00 and logged on day 1, no reminder time, reminder at
\* 23:58, reminder at 00:03
ReminderUsers == {
    [reminder_time |-> <<"0", "9", ":", "0", "0">>, last_log_at |-> 0],
    [reminder_time |-> OFF, last_log_at |-> 0],
    [reminder_time |-> <<"0", "9", ":", "0", "0">>, last_log_at |-> 1],
    [reminder_time |-> <<>>, last_log_at |-> 0],
    [reminder_time |-> <<"2", "3", ":", "5", "8">>, last_log_at |-> 0],
    [reminder_time |-> <<"0", "0", ":", "0", "3">>, last_log_at |-> 0]}

\* when the scheduler calls: on day 1 at 09:03, at 09:09 and at 00:02, in
\* a build that prints the hour after midnight as 00 or as 24
ReminderTimes == {[day |-> 1, minutes |-> m, h24 |-> b] : m \in {543, 549, 2}, b \in BOOLEAN}

\* the users collection holds at most MaxUsers of these records
InitReminders ==
    /\ today = 1
    /\ user = SetUpUser
    /\ doc = createCheckinDoc
    /\ nMessages = 0
    /\ pc = [p \in Procs |-> "idle"]
    /\ entryText = [p \in Procs |-> <<>>]
    /\ wasEnhanced = [p \in Procs |-> FALSE]
    /\ snapshot = [p \in Procs |-> <<>>]
    /\ heading = [p \in Procs |-> 0]
    /\ position = [p \in Procs |-> NoPosition]
    /\ calls = [p \in Procs |-> <<>>]
    /\ reply = [p \in Procs |-> "none"]
    /\ cmdReply = [kind |-> "none", text |-> <<>>]
    /\ appended = <<>>
    /\ clock = 0
    /\ processedMessages = {}
    /\ timers = <<>>
    /\ deliveries = <<>>
    /\ current = [p \in Procs |-> 0]
    /\ reminderUsers \in UNION {[1..k -> ReminderUsers] : k \in 0..MaxUsers}
    /\ run = NoRun
    /\ serverZone = UTC
    /\ cmdCalls = <<>>

\* the scheduler calls the endpoint, one run after another
NextReminders ==
    \/ \E secretSet \in BOOLEAN, authorized \in BOOLEAN, storeAnswers \in BOOLEAN,
          now \in ReminderTimes :
           TriggerReminders(secretSet, authorized, storeAnswers, now)
    \/ \E sendOk \in BOOLEAN : ExamineUser(sendOk)

SpecReminders == InitReminders /\ [][NextReminders]_vars

\* C19: a run examines the users getAllUsersForReminders returned one by
\* one in their order, each once; it ends only after the last of them,
\* whatever became of the sends, and then answers 200 with reminders_sent
\* equal to the number of sends that succeeded.
C19_EveryUserExaminedOnce ==
    /\ run.pc = "loop"
           => /\ run.users = reminderUsers
              /\ run.i <= Len(run.users)
              /\ run.examined = [k \in 1..(run.i - 1) |-> k]
    /\ (run.pc = "done" /\ run.examined # <<>>)
           => /\ run.examined = [k \in 1..Len(reminderUsers) |-> k]
              /\ run.status = 200
              /\ run.reminders_sent
                     = Cardinality({k \in 1..Len(run.sends) : run.sends[k].ok})

\* a run has ended in which the send to one user failed and the send to a
\* user after it succeeded
C19_Witness ==
    /\ run.pc = "done"
    /\ run.status = 200
    /\ run.reminders_sent = 1
    /\ \E k \in 1..Len(run.sends) : ~run.sends[k].ok /\ k < Len(run.sends)
                                        /\ run.sends[Len(run.sends)].ok

\* ------------------------------------------------------------------------
\* Rejected document-store calls and a failing refinement
\* ------------------------------------------------------------------------

OpsOf(cs) == [k \in 1..Len(cs) |-> cs[k].op]

\* C17: when documents.get or documents.batchUpdate is rejected, the
\* rejected call is the last document-store call of that message (each call
\* was made at most once, the document is as before), and the handler
\* replies with the re-authorization text exactly when the error message
\* contains 'invalid_grant' or 'Token' and with the generic failure text
\* otherwise; a success confirmation is only ever sent after an applied
\* batchUpdate.
C17_RejectedCallEndsTheAppend ==
    [][\A p \in Procs :
        /\ \A err \in StoreErrors :
              (GetDocumentFails(p, err) \/ BatchUpdateFails(p, err))
                  => /\ pc'[p] = "idle"
                     /\ doc' = doc
                     /\ appended' = appended
                     /\ OpsOf(calls'[p]) \in {<<"get">>, <<"get", "batchUpdate">>}
                     /\ reply'[p] = IF Includes(err, INVALID_GRANT) \/ Includes(err, TOKEN)
                                    THEN "reconnect" ELSE "failed"
        /\ (pc[p] = "idle" /\ calls'[p] # calls[p]) => calls'[p] = <<>>
        /\ (reply'[p] # reply[p] /\ reply'[p] \in {"logged", "logged_enhanced"})
               => /\ pc[p] = "streak"
                  /\ OpsOf(calls[p]) = <<"get", "batchUpdate">>
                  /\ appended # <<>>
      ]_vars

\* batchUpdate was rejected with a credential error and the handler has
\* sent the re-authorization reply
C17_Witness ==
    \E p \in Procs :
        /\ pc[p] = "idle"
        /\ reply[p] = "reconnect"
        /\ OpsOf(calls[p]) = <<"get", "batchUpdate">>

\* C18: for a message that starts with '+' from a set-up user, when
\* GEMINI_API_KEY is unset or generateContent is rejected, the handler goes
\* on to appendEntry with cleanupEntry of the text after the '+'.
C18_RefinementNeverBlocks ==
    [][\A p \in Procs, t \in DMTexts, keySet \in BOOLEAN, outcome \in LLMOutcomes :
          ( /\ ReceiveMessage(p, FreshKey, t, keySet, outcome)
            /\ StartsWith(t, <<"+">>)
            /\ ~keySet \/ ~outcome.ok
            /\ user.exists /\ user.google_doc_id # "null" /\ user.google_refresh_token # "null" )
              => /\ pc'[p] = "get"
                 /\ wasEnhanced'[p]
                 /\ entryText'[p] = cleanupEntry(Trim(Tail(t)))
      ]_vars

\* the entry '+d,e' was logged without the language model: 'd' and 'e' are
\* in the document as two bullet lines
C18_Witness ==
    \E p \in Procs :
        /\ reply[p] = "logged_enhanced"
        /\ entryText[p] = <<"d", NL, BULLET, " ", "e">>
        /\ Includes(doc, <<BULLET, " ", "d", NL, BULLET, " ", "e", NL>>)

\* ------------------------------------------------------------------------
\* Two handlers in appendEntry at the same time
\* ------------------------------------------------------------------------

\* two handlers of the same user run at once; every call is answered
NextRace ==
    \/ Tick
    \/ \E p \in Procs, t \in {<<"a">>, <<"b", NL, "c">>} :
           ReceiveMessage(p, FreshKey, t, FALSE, [ok |-> FALSE, text |-> <<>>])
    \/ \E p \in Procs : GetDocument(p)
    \/ \E p \in Procs : BatchUpdate(p)
    \/ \E p \in Procs : UpdateStreak(p)

SpecRace == Init /\ [][NextRace]_vars

\* the text appendEntry inserts for handler p, from what p has read
StaleInsert(p) ==
    LET pos == findInsertPosition(Content(snapshot[p]), getTodayHeading(heading[p]))
    IN  [index |-> pos.index,
         text |-> IF pos.needsNewHeading
                  THEN HeadingText(getTodayHeading(heading[p])) \o BulletEntry(entryText[p])
                  ELSE BulletEntry(entryText[p])]

\* C20: every batchUpdate of appendEntry is applied to the document as it
\* is then, whatever was written since the handler's read, and inserts at
\* the index computed from the document the handler read; when that
\* document had no heading for the day and the day's heading has been
\* written since, the document gains one more heading for the same day.
C20_WritesFromStaleSnapshot ==
    [][\A p \in Procs :
          BatchUpdate(p)
              => /\ doc' = InsertText(doc, StaleInsert(p).index, StaleInsert(p).text)
                 /\ (HeadingCount(snapshot[p], heading[p]) = 0
                        /\ HeadingCount(doc, heading[p]) >= 1)
                        => HeadingCount(doc', heading[p]) = HeadingCount(doc, heading[p]) + 1
      ]_vars

\* both handlers have written and the document has two headings for day 1
C20_Witness ==
    /\ Len(appended) = 2
    /\ appended[1].day = 1 /\ appended[2].day = 1
    /\ HeadingCount(doc, 1) = 2

\* two entries written under an existing heading stand in the document in
\* the reverse order of their writes
C20_ReverseOrder ==
    /\ Len(appended) = 3
    /\ HeadingCount(doc, 1) = 1
    /\ Includes(doc, BulletEntry(appended[3].entry) \o BulletEntry(appended[2].entry))
    /\ appended[3].entry # appended[2].entry

\* ------------------------------------------------------------------------
\* Streaks over the days
\* ------------------------------------------------------------------------

\* a day ends
DayPasses ==
    /\ today < MaxStreakDay
    /\ today' = today + 1
    /\ UNCHANGED <<user, doc, nMessages, pc, entryText, wasEnhanced, snapshot, heading,
                   position, calls, reply, cmdReply, appended, cacheVars, deliveries,
                   current, reminderVars, envVars, cmdCalls>>

\* updateStreak is called for the user
StreakCall ==
    /\ user' = updateStreak(user, today, serverZone).user
    /\ UNCHANGED <<today, doc, nMessages, pc, entryText, wasEnhanced, snapshot, heading,
                   position, calls, reply, cmdReply, appended, cacheVars, deliveries,
                   current, reminderVars, envVars, cmdCalls>>

\* a user with or without a record, a server with or without daylight
\* saving time
InitStreak ==
    /\ today = 1
    /\ user \in {NoUser, SetUpUser}
    /\ doc = IF user.exists THEN createCheckinDoc ELSE <<>>
    /\ nMessages = 0
    /\ pc = [p \in Procs |-> "idle"]
    /\ entryText = [p \in Procs |-> <<>>]
    /\ wasEnhanced = [p \in Procs |-> FALSE]
    /\ snapshot = [p \in Procs |-> <<>>]
    /\ heading = [p \in Procs |-> 0]
    /\ position = [p \in Procs |-> NoPosition]
    /\ calls = [p \in Procs |-> <<>>]
    /\ reply = [p \in Procs |-> "none"]
    /\ cmdReply = [kind |-> "none", text |-> <<>>]
    /\ appended = <<>>
    /\ clock = 0
    /\ processedMessages = {}
    /\ timers = <<>>
    /\ deliveries = <<>>
    /\ current = [p \in Procs |-> 0]
    /\ reminderUsers = <<>>
    /\ run = NoRun
    /\ serverZone \in {UTC, DefaultTimezone}
    /\ cmdCalls = <<>>

NextStreak == DayPasses \/ StreakCall

SpecStreak == InitStreak /\ [][NextStreak]_vars

\* C22: updateStreak returns 0 and writes nothing for a missing record; on
\* an existing record it sets current_streak to 1 on the first log, leaves
\* it as it is when the previous log was on the same calendar day, adds 1
\* when it was on the day before, and sets it to 1 when it was earlier.
C22_StreakFollowsCalendarDays ==
    LET r == updateStreak(user, today, serverZone)
    IN  IF ~user.exists
        THEN r.streak = 0 /\ r.user = user
        ELSE /\ r.streak = IF user.last_log_at = 0 THEN 1
                           ELSE IF user.last_log_at = today THEN user.current_streak
                           ELSE IF user.last_log_at = today - 1
                           THEN user.current_streak + 1
                           ELSE 1
             /\ r.user.current_streak = r.streak
             /\ r.user.last_log_at = today

\* C24: over any sequence of updateStreak calls, longest_streak is at
\* least current_streak and never decreases, and current_streak is at least
\* 1 once last_log_at is set.
C24_LongestCoversCurrent ==
    [][/\ user'.longest_streak >= user'.current_streak
       /\ user'.longest_streak >= user.longest_streak
       /\ user'.last_log_at # 0 => user'.current_streak >= 1
      ]_vars

\* the streak was 2, a day was missed, and the streak is 1 again while the
\* longest streak is still 2
C24_Witness ==
    /\ user.current_streak = 1
    /\ user.longest_streak = 2
    /\ user.last_log_at = 4

\* ------------------------------------------------------------------------
\* db/firestore.js: saveUser;  commands/checkin.js: handleReminder
\* ------------------------------------------------------------------------

\* a property of userData that the caller did not give
undefined == "undefined"

\* the reminder time saveUser stores when none is given
DefaultReminderTime == <<"1", "7", ":", "0", "0">>

\* saveUser: dataToSave (slack_user_id, slack_team_id and updated_at
\* left out); google_refresh_token is a property only when one was given;
\* a reminderTime that was not given is the empty text
dataToSave(userData) ==
    [google_doc_id |-> userData.googleDocId,
     timezone |-> IF userData.timezone \in {undefined, ""} THEN DefaultTimezone
                  ELSE userData.timezone,
     reminder_time |-> IF userData.reminderTime = <<>> THEN DefaultReminderTime
                       ELSE userData.reminderTime,
     google_refresh_token |-> userData.googleRefreshToken]

\* usersCollection.doc(docId).set(data, {merge: true}) when the store
\* accepts the data: every property with a value replaces the stored one
MergeSet(u, data) ==
    [u EXCEPT !.exists = TRUE,
              !.google_doc_id = IF data.google_doc_id = undefined THEN @
                                ELSE data.google_doc_id,
              !.timezone = data.timezone,
              !.reminder_time = data.reminder_time,
              !.google_refresh_token = IF data.google_refresh_token = undefined THEN @
                                       ELSE data.google_refresh_token]

\* what the store may do with a set whose data has a property without a
\* value: reject the call, or leave that property out
SetOutcomes == {"rejects", "merges"}

OFF_WORDS == {<<"o", "f", "f">>, <<"d", "i", "s", "a", "b", "l", "e">>, <<"n", "o", "n", "e">>}

AM == <<"a", "m">>

PM == <<"p", "m">>

\* hours.toString().padStart(2, '0') + ':' + minutes.toString().padStart(2, '0')
FormatHHMM(hours, minutes) == TwoDigits(hours) \o <<":">> \o TwoDigits(minutes)

\* input.match(/^(\d{1,2})(?::(\d{2}))?\s*(am|pm)$/i): whether it matches,
\* and groups 1, 2 (empty when it took no part) and 3
match12hr(input) ==
    LET d == SpanEnd(input, 1, DigitChars)
        hasMinutes == /\ d + 2 <= Len(input)
                      /\ input[d] = ":"
                      /\ input[d + 1] \in DigitChars
                      /\ input[d + 2] \in DigitChars
        m == IF hasMinutes THEN d + 3 ELSE d
        w == SpanEnd(input, m, SpaceChars)
        rest == SubSeq(input, w, Len(input))
    IN  [matches |-> (d - 1) \in {1, 2} /\ toLowerCase(rest) \in {AM, PM},
         hours |-> SubSeq(input, 1, d - 1),
         minutes |-> IF hasMinutes THEN SubSeq(input, d + 1, d + 2) ELSE <<>>,
         period |-> rest]

\* input.match(/^(\d{1,2}):(\d{2})$/)
match24hr(input) ==
    LET d == SpanEnd(input, 1, DigitChars)
    IN  [matches |-> /\ (d - 1) \in {1, 2}
                     /\ Len(input) = d + 2
                     /\ input[d] = ":"
                     /\ input[d + 1] \in DigitChars
                     /\ input[d + 2] \in DigitChars,
         hours |-> SubSeq(input, 1, d - 1),
         minutes |-> SubSeq(input, d + 1, Len(input))]

\* the 12-hour branch of handleReminder: reminderTime from the match
ReminderTime12(m) ==
    LET h == ParseInt(m.hours)
        minutes == IF m.minutes # <<>> THEN ParseInt(m.minutes) ELSE 0
        period == toLowerCase(m.period)
        hours == IF period = PM /\ h < 12 THEN h + 12
                 ELSE IF period = AM /\ h = 12 THEN 0 ELSE h
    IN  FormatHHMM(hours, minutes)

\* the 24-hour branch of handleReminder; empty stands for null
ReminderTime24(m) ==
    LET hours == ParseInt(m.hours)
        minutes == ParseInt(m.minutes)
    IN  IF hours >= 0 /\ hours <= 23 /\ minutes >= 0 /\ minutes <= 59
        THEN FormatHHMM(hours, minutes) ELSE <<>>

\* handleReminder: what the time argument parses to: [off |-> TRUE] for
\* off / disable / none, otherwise reminderTime, empty when it stays null
ParseReminder(timeArg) ==
    LET input == Trim(toLowerCase(timeArg))
    IN  IF input \in OFF_WORDS THEN [off |-> TRUE, reminderTime |-> <<>>]
        ELSE IF match12hr(input).matches
        THEN [off |-> FALSE, reminderTime |-> ReminderTime12(match12hr(input))]
        ELSE IF match24hr(input).matches
        THEN [off |-> FALSE, reminderTime |-> ReminderTime24(match24hr(input))]
        ELSE [off |-> FALSE, reminderTime |-> <<>>]

\* /checkin reminder <timeArg>; setOutcome: what the user store does with
\* the set of saveUser, whose google_doc_id has no value
handleReminder(timeArg, setOutcome) ==
    /\ LET parsed == ParseReminder(timeArg)
           userData == [googleDocId |-> undefined, timezone |-> undefined,
                        googleRefreshToken |-> undefined,
                        reminderTime |-> IF parsed.reminderTime # <<>>
                                         THEN parsed.reminderTime ELSE OFF]
       IN  IF Trim(timeArg) = <<>>
           THEN /\ cmdReply' = [kind |-> "reminder_usage", text |-> timeArg]
                /\ cmdCalls' = <<>>
                /\ user' = user
           ELSE IF ~user.exists \/ user.google_doc_id = "null"
           THEN /\ cmdReply' = [kind |-> "setup_required", text |-> <<>>]
                /\ cmdCalls' = <<"getUser">>
                /\ user' = user
           ELSE IF ~parsed.off /\ parsed.reminderTime = <<>>
           THEN /\ cmdReply' = [kind |-> "parse_error", text |-> timeArg]
                /\ cmdCalls' = <<"getUser">>
                /\ user' = user
           ELSE IF setOutcome = "rejects"
           THEN /\ cmdReply' = [kind |-> "reminder_error", text |-> timeArg]
                /\ cmdCalls' = <<"getUser", "saveUser">>
                /\ user' = user
           ELSE /\ cmdReply' = [kind |-> IF parsed.reminderTime # <<>>
                                         THEN "reminder_set" ELSE "reminder_off",
                                text |-> parsed.reminderTime]
                /\ cmdCalls' = <<"getUser", "saveUser">>
                /\ user' = MergeSet(user, dataToSave(userData))
    /\ UNCHANGED <<today, doc, nMessages, pc, entryText, wasEnhanced, snapshot, heading,
                   position, calls, reply, appended, cacheVars, deliveries, current,
                   reminderVars, envVars>>

\* ------------------------------------------------------------------------
\* commands/checkin.js: the other commands, and the commands together
\* ------------------------------------------------------------------------

\* a test on the record alone
NeedsSetupNoRecord(u) == ~u.exists

\* the test every command makes on what getUser returned
NeedsSetup(u) == ~u.exists \/ u.google_doc_id = "null"

\* /checkin status
handleStatus ==
    /\ cmdReply' = IF NeedsSetup(user)
                   THEN [kind |-> "setup_required", text |-> <<>>]
                   ELSE [kind |-> "status", text |-> <<>>,
                         streak |-> user.current_streak,
                         longestStreak |-> user.longest_streak]
    /\ cmdCalls' = <<"getUser">>
    /\ UNCHANGED <<today, user, doc, nMessages, pc, entryText, wasEnhanced, snapshot, heading,
                   position, calls, reply, appended, cacheVars, deliveries, current,
                   reminderVars, envVars>>

\* /checkin weekly, for the week from weekStart to weekEnd; storeAnswers:
\* the document store answers the read
handleWeekly(weekStart, weekEnd, storeAnswers) ==
    /\ IF NeedsSetup(user)
       THEN /\ cmdReply' = [kind |-> "setup_required", text |-> <<>>]
            /\ cmdCalls' = <<"getUser">>
       ELSE IF ~storeAnswers
       THEN /\ cmdReply' = [kind |-> "weekly_error", text |-> <<>>]
            /\ cmdCalls' = <<"getUser", "getDocContent">>
       ELSE /\ cmdReply' = [kind |-> "weekly", text |-> <<>>,
                            range |-> <<weekStart, weekEnd>>,
                            records |-> getEntriesForDateRange(doc, weekStart, weekEnd)]
            /\ cmdCalls' = <<"getUser", "getDocContent", "generateWeeklySummary">>
    /\ UNCHANGED <<today, user, doc, nMessages, pc, entryText, wasEnhanced, snapshot, heading,
                   position, calls, reply, appended, cacheVars, deliveries, current,
                   reminderVars, envVars>>

\* the weeks /checkin weekly may be asked in: from the start of day 1 to
\* the end of a day
WeekRanges == {<<DayDate(1, 0), DayDate(e, 1)>> : e \in ClockDays}

\* the arguments given to /checkin reminder
ReminderArgs == {<<>>,
                 <<"o", "f", "f">>,
                 <<"D", "i", "s", "a", "b", "l", "e">>,
                 <<"5", "p", "m">>,
                 <<"1", "2", "a", "m">>,
                 <<"5", ":", "3", "0", " ", "P", "M">>,
                 <<"1", "7", ":", "0", "0">>,
                 <<"9", ":", "0", "5">>,
                 <<"2", "4", ":", "0", "0">>,
                 <<"1", "0", ":", "6", "0">>,
                 <<"9", "9", "p", "m">>,
                 <<"5", ":", "9", "9", "p", "m">>,
                 <<"n", "o", "o", "n">>}

\* those of them that name a time of day or switch the reminder off
TimeArgs == {<<"o", "f", "f">>, <<"D", "i", "s", "a", "b", "l", "e">>, <<"5", "p", "m">>, <<"1", "2", "a", "m">>, <<"5", ":", "3", "0", " ", "P", "M">>, <<"1", "7", ":", "0", "0">>, <<"9", ":", "0", "5">>}

\* the texts of the direct messages, one of them blank
CommandDMTexts == {<<"a">>, <<" ">>}

\* the users who give the commands: without a record, with a record
\* without google_doc_id, with a refresh token that is missing or cannot be
\* decrypted, set up, and set up from a Slack profile in another timezone
CommandUsers == {
    NoUser,
    [SetUpUser EXCEPT !.google_doc_id = "null"],
    [SetUpUser EXCEPT !.google_refresh_token = "null"],
    SetUpUser,
    [SetUpUser EXCEPT !.timezone = "Europe/Berlin"]}

InitCommands ==
    /\ today = 1
    /\ user \in CommandUsers
    /\ doc = IF NeedsSetup(user) THEN <<>> ELSE createCheckinDoc
    /\ nMessages = 0
    /\ pc = [p \in Procs |-> "idle"]
    /\ entryText = [p \in Procs |-> <<>>]
    /\ wasEnhanced = [p \in Procs |-> FALSE]
    /\ snapshot = [p \in Procs |-> <<>>]
    /\ heading = [p \in Procs |-> 0]
    /\ position = [p \in Procs |-> NoPosition]
    /\ calls = [p \in Procs |-> <<>>]
    /\ reply = [p \in Procs |-> "none"]
    /\ cmdReply = [kind |-> "none", text |-> <<>>]
    /\ appended = <<>>
    /\ clock = 0
    /\ processedMessages = {}
    /\ timers = <<>>
    /\ deliveries = <<>>
    /\ current = [p \in Procs |-> 0]
    /\ reminderUsers = <<>>
    /\ run = NoRun
    /\ serverZone = UTC
    /\ cmdCalls = <<>>

\* one user sends direct messages and gives commands, one after the other
NextCommands ==
    \/ \E t \in CommandDMTexts :
           ReceiveMessage(1, FreshKey, t, FALSE, [ok |-> FALSE, text |-> <<>>])
    \/ GetDocument(1)
    \/ BatchUpdate(1)
    \/ UpdateStreak(1)
    \/ handleStatus
    \/ \E range \in WeekRanges, storeAnswers \in BOOLEAN :
           handleWeekly(range[1], range[2], storeAnswers)
    \/ handleUndo
    \/ \E keyword \in Keywords, storeAnswers \in BOOLEAN : handleSearch(keyword, storeAnswers)
    \/ \E timeArg \in ReminderArgs, setOutcome \in SetOutcomes :
           handleReminder(timeArg, setOutcome)

SpecCommands == InitCommands /\ [][NextCommands]_vars

\* HH:MM with 00 <= HH <= 23 and 00 <= MM <= 59
IsHHMM(t) ==
    /\ Len(t) = 5
    /\ t[3] = ":"
    /\ \A i \in {1, 2, 4, 5} : t[i] \in DigitChars
    /\ ParseInt(SubSeq(t, 1, 2)) <= 23
    /\ ParseInt(SubSeq(t, 4, 5)) <= 59

ReminderSuccess == {"reminder_set", "reminder_off"}

\* C21: after a /checkin reminder command that replies with success the
\* stored reminder_time is 'off' or HH:MM with HH <= 23 and MM <= 59; an
\* argument that names no time gets the 'Couldn't parse' reply and stores
\* nothing.
C21_StoredTimeIsValid ==
    [][\A timeArg \in ReminderArgs, setOutcome \in SetOutcomes :
          handleReminder(timeArg, setOutcome)
              => /\ cmdReply'.kind \in ReminderSuccess
                        => user'.reminder_time = OFF \/ IsHHMM(user'.reminder_time)
                 /\ (~NeedsSetup(user) /\ Trim(timeArg) # <<>> /\ timeArg \notin TimeArgs)
                        => cmdReply'.kind = "parse_error" /\ user' = user
      ]_vars

NotSetUp(u) == ~u.exists \/ u.google_doc_id = "null"

\* a step of one of the five commands
CommandStep ==
    \/ handleStatus
    \/ handleUndo
    \/ \E range \in WeekRanges, storeAnswers \in BOOLEAN :
           handleWeekly(range[1], range[2], storeAnswers)
    \/ \E keyword \in Keywords, storeAnswers \in BOOLEAN : handleSearch(keyword, storeAnswers)
    \/ \E timeArg \in ReminderArgs, setOutcome \in SetOutcomes :
           handleReminder(timeArg, setOutcome)

\* the direct-message handler stops before appendEntry and writes nothing
HandlerStopsAtOnce(p) ==
    /\ pc'[p] = "idle"
    /\ calls'[p] = calls[p]
    /\ doc' = doc
    /\ user' = user

TimeOfDay(t) == ParseInt(SubSeq(t, 1, 2)) * 60 + ParseInt(SubSeq(t, 4, 5))

\* how far two times of day are apart on the clock, in minutes
ClockDistance(a, b) == IF Abs(a - b) <= 720 THEN Abs(a - b) ELSE 1440 - Abs(a - b)

\* C23: a run sends a reminder to a user only if the user's reminder_time
\* is set and not 'off', the time of the run in the user's timezone is at
\* most 5 minutes from reminder_time, and last_log_at is not on the day of
\* the run; a request whose Authorization header does not match a set
\* REMINDER_SECRET is answered with 401 and sends nothing.
C23_RemindedOnlyWhenDue ==
    [][/\ \A k \in 1..Len(run'.sends) :
              LET u == run'.users[run'.sends[k].to]
              IN  /\ u.reminder_time # <<>>
                  /\ u.reminder_time # OFF
                  /\ IsHHMM(u.reminder_time)
                  /\ ClockDistance(TimeOfDay(u.reminder_time), run'.now.minutes) <= 5
                  /\ u.last_log_at # run'.now.day
       /\ \A storeAnswers \in BOOLEAN, now \in ReminderTimes :
              TriggerReminders(TRUE, FALSE, storeAnswers, now)
                  => /\ run'.status = 401
                     /\ run'.pc = "done"
                     /\ run'.sends = <<>>
                     /\ run'.log = run.log
      ]_vars

\* a run at 09:03 has passed over a user who logged today and a user whose
\* reminders are off, and has reminded a user whose reminder_time is 09:00
C23_Witness ==
    /\ run.pc = "done"
    /\ run.status = 200
    /\ run.now.minutes = 543
    /\ Len(run.users) = 2
    /\ run.users[1].last_log_at = 1
    /\ run.sends = <<[to |-> 2, ok |-> TRUE]>>

\* the scheduler calls every 5 minutes, with the right header
ScheduledRun ==
    TriggerReminders(TRUE, TRUE, TRUE, [run.now EXCEPT !.minutes = @ + 5])

\* the users, none of whom logs, and the time of the scheduler's last call
\* before the first one followed: 08:50 or 08:52
InitSchedule ==
    /\ today = 1
    /\ user = SetUpUser
    /\ doc = createCheckinDoc
    /\ nMessages = 0
    /\ pc = [p \in Procs |-> "idle"]
    /\ entryText = [p \in Procs |-> <<>>]
    /\ wasEnhanced = [p \in Procs |-> FALSE]
    /\ snapshot = [p \in Procs |-> <<>>]
    /\ heading = [p \in Procs |-> 0]
    /\ position = [p \in Procs |-> NoPosition]
    /\ calls = [p \in Procs |-> <<>>]
    /\ reply = [p \in Procs |-> "none"]
    /\ cmdReply = [kind |-> "none", text |-> <<>>]
    /\ appended = <<>>
    /\ clock = 0
    /\ processedMessages = {}
    /\ timers = <<>>
    /\ deliveries = <<>>
    /\ current = [p \in Procs |-> 0]
    /\ reminderUsers \in UNION {[1..k -> ReminderUsers] : k \in 0..MaxUsers}
    /\ \E m \in {530, 532} : run = [NoRun EXCEPT !.now = [day |-> 1, minutes |-> m, h24 |-> FALSE]]
    /\ serverZone = UTC
    /\ cmdCalls = <<>>

NextSchedule ==
    \/ ScheduledRun
    \/ \E sendOk \in BOOLEAN : ExamineUser(sendOk)

SpecSchedule == InitSchedule /\ [][NextSchedule]_vars

\* C29: with a run every 5 minutes, a user who does not log is sent at
\* most one reminder on a calendar day.
C29_OneReminderADay ==
    \A j, k \in 1..Len(run.log) :
        (run.log[j].to = run.log[k].to /\ run.log[j].day = run.log[k].day
            /\ run.log[j].ok /\ run.log[k].ok) => j = k

\* ------------------------------------------------------------------------
\* The order of the handler's calls and what a failure reply means
\* ------------------------------------------------------------------------

FailureReplies == {"failed", "reconnect"}

\* C25: updateStreak is called only after the batchUpdate of appendEntry
\* for the same message was applied, the confirmation is sent only after
\* updateStreak has answered, and when the handler sends a failure reply
\* the message has changed neither the document nor the user record.
C25_FailureMeansNothingChanged ==
    [][\A p \in Procs :
          /\ (UpdateStreak(p) \/ \E err \in StoreErrors : UpdateStreakFails(p, err))
                 => /\ OpsOf(calls[p]) = <<"get", "batchUpdate">>
                    /\ deliveries[current[p]].appends = 1
          /\ (reply'[p] # reply[p] /\ reply'[p] \in {"logged", "logged_enhanced"})
                 => /\ UpdateStreak(p)
                    /\ deliveries'[current[p]].streaks = 1
          /\ (pc[p] # "idle" /\ pc'[p] = "idle" /\ reply'[p] \in FailureReplies)
                 => /\ "batchUpdate" \notin {calls[p][i].op : i \in 1..Len(calls[p])}
                    /\ doc' = doc
                    /\ user' = user
      ]_vars

\* ------------------------------------------------------------------------
\* What two concurrent writes leave of each other
\* ------------------------------------------------------------------------

\* how often the text t stands in d
Occurrences(d, t) ==
    Cardinality({i \in 1..(Len(d) - Len(t) + 1) : SubSeq(d, i, i + Len(t) - 1) = t})

\* how many of the entries written have the text e
TimesWritten(e) == Cardinality({i \in 1..Len(appended) : appended[i].entry = e})

\* C30: whatever the interleaving of the reads and writes of two
\* appendEntry calls, every batchUpdate is sent with indices the document
\* store accepts, and the bullet line of every entry written stands in the
\* document, whole and at the start of a line.
C30_NoEntryLost ==
    /\ \A p \in Procs : pc[p] = "update" => RequestsValid(doc, RequestsOf(p))
    /\ \A i \in 1..Len(appended) :
           Occurrences(doc, <<NL>> \o BulletEntry(appended[i].entry))
               >= TimesWritten(appended[i].entry)

\* ------------------------------------------------------------------------
\* Entries without text
\* ------------------------------------------------------------------------

\* the line appendEntry writes for an entry without text
EmptyBulletLine == BulletEntry(<<>>)

\* direct messages that ask for enhancement: with text, without, with
\* nothing but a separator, and a blank message
PlusTexts == {<<"+", "d">>, <<"+">>, <<"+", " ", ",">>, <<" ">>}

\* one user sends '+' messages, with and without a GEMINI_API_KEY
NextPlus ==
    \/ \E p \in Procs, t \in PlusTexts, keySet \in BOOLEAN,
          outcome \in {[ok |-> FALSE, text |-> <<>>], [ok |-> TRUE, text |-> <<"D">>]} :
           ReceiveMessage(p, FreshKey, t, keySet, outcome)
    \/ \E p \in Procs : GetDocument(p)
    \/ \E p \in Procs : BatchUpdate(p)
    \/ \E p \in Procs : UpdateStreak(p)

SpecPlus == Init /\ [][NextPlus]_vars

\* C28: whatever the text of a direct message, '+' texts included, the
\* handler never starts appendEntry with an entry that is empty or blank,
\* and no bullet line without text is written to the document.
C28_NoEntryWithoutText ==
    [][\A p \in Procs :
          /\ (pc[p] = "idle" /\ pc'[p] = "get") => Trim(entryText'[p]) # <<>>
          /\ BatchUpdate(p) => Occurrences(doc', EmptyBulletLine) = 0
      ]_vars

====
